---- MODULE Spec2Model ----
(***************************************************************************)
(* Model of the wtfk schema pipeline:                                      *)
(*   scripts/step_01_extract_schema.py   DDL extractor (line filter)       *)
(*   scripts/02_compress_schema.py       DDL parser and compact serializer *)
(*   scripts/step_03_generate_context.py compact parser and statistics     *)
(* Text is modelled by the attributes the code reads from it: a line is a  *)
(* record of the tokens and markers the parsers test for.                  *)
(***************************************************************************)
EXTENDS Integers, Sequences, FiniteSets, TLC

VARIABLES
    \* ---- step_01_extract_schema.extract_schema
    lines,            \* the input file, a sequence of lines
    xi,               \* number of input lines the loop has consumed
    in_copy_block,
    in_insert_block,
    schema_lines,     \* the kept lines
    kept,             \* ghost: input position of every kept line
    written,          \* content of the output file
    xresult,          \* "running", "true" or "false": extract_schema's result
    \* ---- 02_compress_schema.SchemaCompressor
    dump,             \* the DDL file handed to parse_schema
    pidx,             \* parse_schema's index i (0-based)
    phase,            \* position in the run: "parse", "postpass", "generate", ...
    tables,           \* self.tables, an OrderedDict: sequence of entries by name
    sequences,        \* self.sequences
    default_owner,    \* self.default_owner
    pre_tables,       \* ghost: self.tables when the post-pass starts
    compact,          \* the compact text, a sequence of lines
    \* ---- step_03_generate_context.SchemaContextGenerator
    settings,         \* self.settings['context_generation']
    ctables,          \* self.tables, a dict: sequence of entries by name
    relationships,    \* self.relationships
    statistics,       \* self.statistics, a dict from key to value
    stats_log,        \* ghost: what each generate_statistics call left behind
    cat_idx,          \* _fallback_categorize_tables: tables handled, -1 before it starts
    categories        \* _fallback_categorize_tables: categories

xvars == <<lines, xi, in_copy_block, in_insert_block, schema_lines, kept, written, xresult>>

dvars == <<dump, pidx, tables, sequences, default_owner, pre_tables, compact>>

cvars == <<settings, ctables, relationships, statistics, stats_log>>

kvars == <<cat_idx, categories>>

vars == <<lines, xi, in_copy_block, in_insert_block, schema_lines, kept, written, xresult,
          dump, pidx, phase, tables, sequences, default_owner, pre_tables, compact,
          settings, ctables, relationships, statistics, stats_log, cat_idx, categories>>

None == "None"

\* what a step of the extractor leaves alone
XFrame == UNCHANGED <<phase, dvars, cvars, kvars>>

\* what a step of the DDL parser and serializer leaves alone
DFrame == UNCHANGED <<xvars, cvars, kvars>>

\* what a step of the compact parser and the statistics leaves alone
CFrame == UNCHANGED <<xvars, dvars, kvars>>

\* what a step of the fallback categorizer leaves alone
KFrame == UNCHANGED <<xvars, dvars, cvars, phase>>

\* Longest extractor input.
MaxLines == 4

(***************************************************************************)
(* Extractor.  A raw line is [lead, head, from, semi]: lead is its leading *)
(* whitespace, head the keyword(s) its stripped text starts with ("" for a *)
(* blank line, "OTHER" for anything else), from whether the text holds     *)
(* " FROM ", semi whether the stripped text ends in ";".                   *)
(***************************************************************************)
XLine(lead, head, from, semi) ==
    [lead |-> lead, head |-> head, from |-> from, semi |-> semi]

XAlphabet ==
    { XLine("", "COPY ", TRUE, TRUE),          \* COPY t (a, b) FROM stdin;
      XLine("", "COPY ", FALSE, TRUE),         \* COPY t TO stdout;
      XLine("", "INSERT INTO", FALSE, TRUE),   \* INSERT INTO t VALUES (1);
      XLine("  ", "INSERT INTO", FALSE, FALSE),\*   INSERT INTO t VALUES
      XLine("", "\\.", FALSE, FALSE),          \* \.
      XLine("", "CREATE TABLE", FALSE, FALSE), \* CREATE TABLE t (
      XLine("", "ALTER TABLE", FALSE, TRUE),   \* ALTER TABLE t OWNER TO o;
      XLine("", "", FALSE, FALSE),             \* blank line
      XLine("", "--", FALSE, FALSE),           \* -- comment
      XLine("    ", "OTHER", FALSE, FALSE),    \*     id integer NOT NULL,
      XLine("", "OTHER", FALSE, TRUE) }        \* );

RECURSIVE SeqsUpTo(_, _)
SeqsUpTo(S, n) ==
    IF n = 0 THEN { <<>> }
    ELSE LET shorter == SeqsUpTo(S, n - 1)
         IN  shorter \cup { Append(s, x) : s \in { t \in shorter : Len(t) = n - 1 }, x \in S }

\* line.strip().upper(): the leading whitespace is gone.
StripUpper(line) == [line EXCEPT !.lead = ""]

SchemaKeywords ==
    { "CREATE TABLE", "CREATE SEQUENCE", "CREATE INDEX", "CREATE UNIQUE INDEX",
      "CREATE VIEW", "CREATE SCHEMA", "CREATE FUNCTION", "CREATE TRIGGER",
      "CREATE TYPE", "CREATE DOMAIN", "CREATE EXTENSION", "ALTER TABLE",
      "ALTER SEQUENCE", "ALTER INDEX", "ALTER VIEW", "ALTER SCHEMA",
      "ALTER FUNCTION", "ALTER TRIGGER", "ALTER TYPE", "ALTER DOMAIN",
      "COMMENT ON", "SET ", "SELECT PG_CATALOG.SET_CONFIG", "DROP TABLE",
      "DROP SEQUENCE", "DROP INDEX", "DROP VIEW", "DROP SCHEMA", "DROP FUNCTION",
      "DROP TRIGGER", "DROP TYPE", "DROP DOMAIN", "DROP EXTENSION" }

is_schema_statement(line) ==
    LET line_stripped == StripUpper(line)
    IN  \/ line_stripped.head = ""
        \/ line_stripped.head = "--"
        \/ line_stripped.head \in SchemaKeywords

is_insert_statement(line) ==
    LET line_stripped == StripUpper(line)
    IN  \/ line_stripped.head = "INSERT INTO"
        \/ (line_stripped.head = "COPY " /\ line_stripped.from)

XCur == lines[xi + 1]

XRunning == xresult = "running" /\ xi < Len(lines)

XSkip ==
    /\ xi' = xi + 1
    /\ UNCHANGED <<lines, schema_lines, kept, written, xresult>>

\* lines 137-139
ExtractCopyStart ==
    /\ XRunning
    /\ StripUpper(XCur).head = "COPY "
    /\ in_copy_block' = TRUE
    /\ UNCHANGED in_insert_block
    /\ XSkip
    /\ XFrame

\* mutant: any line ending in ";" also closes the COPY block
InCopyNext_semi(line_stripped) ==
    IF line_stripped.head = "\\." \/ line_stripped.semi THEN FALSE ELSE in_copy_block

\* lines 141-144
InCopyNext(line_stripped) == IF line_stripped.head = "\\." THEN FALSE ELSE in_copy_block

ExtractInCopy ==
    /\ XRunning
    /\ StripUpper(XCur).head # "COPY "
    /\ in_copy_block
    /\ in_copy_block' = InCopyNext(StripUpper(XCur))
    /\ UNCHANGED in_insert_block
    /\ XSkip
    /\ XFrame

\* lines 146-148
ExtractInsertStart ==
    /\ XRunning
    /\ StripUpper(XCur).head # "COPY "
    /\ ~in_copy_block
    /\ StripUpper(XCur).head = "INSERT INTO"
    /\ in_insert_block' = TRUE
    /\ UNCHANGED in_copy_block
    /\ XSkip
    /\ XFrame

\* lines 150-153
InInsertNext(line_stripped) == IF line_stripped.semi THEN FALSE ELSE in_insert_block

ExtractInInsert ==
    /\ XRunning
    /\ StripUpper(XCur).head # "COPY "
    /\ ~in_copy_block
    /\ StripUpper(XCur).head # "INSERT INTO"
    /\ in_insert_block
    /\ in_insert_block' = InInsertNext(StripUpper(XCur))
    /\ UNCHANGED in_copy_block
    /\ XSkip
    /\ XFrame

\* mutant: the stripped line is appended
KeptLine_stripped(line) == StripUpper(line)

\* line 158: the line itself is appended
KeptLine(line) == line

\* lines 155-158
ExtractKeep ==
    /\ XRunning
    /\ StripUpper(XCur).head # "COPY "
    /\ ~in_copy_block
    /\ StripUpper(XCur).head # "INSERT INTO"
    /\ ~in_insert_block
    /\ xi' = xi + 1
    /\ IF is_insert_statement(XCur)
       THEN UNCHANGED <<schema_lines, kept>>
       ELSE /\ schema_lines' = Append(schema_lines, KeptLine(XCur))
            /\ kept' = Append(kept, xi + 1)
    /\ UNCHANGED <<lines, in_copy_block, in_insert_block, written, xresult>>
    /\ XFrame

\* lines 163-180: the file is written, then the diagnostics are printed; the
\* reduction percentage divides by total_lines inside the same try block.
ExtractWrite ==
    /\ xresult = "running"
    /\ xi = Len(lines)
    /\ written' = schema_lines
    /\ xresult' = IF Len(lines) = 0 THEN "false" ELSE "true"
    /\ UNCHANGED <<lines, xi, in_copy_block, in_insert_block, schema_lines, kept>>
    /\ XFrame

\* line 31
max_displayed_items == 10

\* lines 34-38, in the dict's order
DefaultFallback ==
    << [name |-> "auth_security",
        keywords |-> <<"auth", "user", "permission", "role", "token", "session">>],
       [name |-> "audit_logging",
        keywords |-> <<"log", "audit", "change", "history", "event">>],
       [name |-> "configuration",
        keywords |-> <<"config", "setting", "param", "lookup", "type", "status", "category">>],
       [name |-> "integration",
        keywords |-> <<"api", "webhook", "external", "import", "export", "sync">>],
       [name |-> "temporary_cache",
        keywords |-> <<"temp", "cache", "queue", "pending">>] >>

\* lines 29-41: default_settings['context_generation']
DefaultSettings ==
    [max_displayed_items |-> max_displayed_items,
     fallback_categorization |-> DefaultFallback]

\* SchemaContextGenerator.__init__, lines 21-25, with the settings cfg
CStart(cfg) ==
    /\ settings = cfg
    /\ ctables = <<>>
    /\ relationships = <<>>
    /\ statistics = <<>>
    /\ stats_log = <<>>

CIdle == CStart(DefaultSettings)

\* _fallback_categorize_tables not entered
KIdle == cat_idx = -1 /\ categories = <<>>

\* the extractor before its loop starts, on the input file f
XStart(f) ==
    /\ lines = f
    /\ xi = 0
    /\ in_copy_block = FALSE
    /\ in_insert_block = FALSE
    /\ schema_lines = <<>>
    /\ kept = <<>>
    /\ written = <<>>
    /\ xresult = "running"

\* SchemaCompressor.__init__, lines 26-32, about to parse the DDL file f
DStart(f) ==
    /\ dump = f
    /\ pidx = 0
    /\ tables = <<>>
    /\ sequences = <<>>
    /\ default_owner = None
    /\ pre_tables = <<>>
    /\ compact = <<>>

\* a component that takes no part in the run
XIdle == XStart(<<>>) 

DIdle == DStart(<<>>) 

InitExtract ==
    /\ \E f \in SeqsUpTo(XAlphabet, MaxLines) : XStart(f)
    /\ DIdle
    /\ phase = "idle"
    /\ CIdle
    /\ KIdle

NextExtract ==
    \/ ExtractCopyStart
    \/ ExtractInCopy
    \/ ExtractInsertStart
    \/ ExtractInInsert
    \/ ExtractKeep
    \/ ExtractWrite

SpecExtract == InitExtract /\ [][NextExtract]_vars

(***************************************************************************)
(* Extractor claims.  The data-defining spans are read off the input file  *)
(* alone, never off the loop's flags.                                      *)
(***************************************************************************)
IsCopyLine(i) == StripUpper(lines[i]).head = "COPY "

IsInsertLine(i) == StripUpper(lines[i]).head = "INSERT INTO"

\* line i is a COPY line, or lies after one with no \. line in between: the
\* block runs from the COPY line through its \. marker
InCopySpan(i) ==
    \E j \in 1..i : IsCopyLine(j) /\ \A k \in j..(i - 1) : StripUpper(lines[k]).head # "\\."

\* line i lies in an INSERT statement: from the INSERT INTO line through the
\* first line (possibly that same line) that ends in ";"
InInsertSpan(i) ==
    \E j \in 1..i : /\ IsInsertLine(j)
                    /\ ~InCopySpan(j)
                    /\ \A k \in j..(i - 1) : ~StripUpper(lines[k]).semi

\* line i continues a multi-line INSERT statement
IsInsertContinuation(i) ==
    \E j \in 1..(i - 1) : /\ IsInsertLine(j)
                          /\ ~InCopySpan(j)
                          /\ \A k \in j..(i - 1) : ~StripUpper(lines[k]).semi

IsDataLine(i) ==
    \/ IsCopyLine(i)
    \/ IsInsertLine(i)
    \/ InCopySpan(i)
    \/ IsInsertContinuation(i)

InOutput(i) == \E k \in 1..Len(written) : kept[k] = i /\ written[k] = lines[i]

\* C5: once the output file is written, every allow-list, blank or comment
\* line that lies neither in a COPY block nor in an INSERT statement is in
\* the output.  (Violated: the INSERT flag is set even when the INSERT INTO
\* line itself ends in ";", so the lines after it are dropped.)
C5_ExtractorComplete ==
    xresult # "running" =>
        \A i \in 1..Len(lines) :
            (is_schema_statement(lines[i]) /\ ~InCopySpan(i) /\ ~InInsertSpan(i))
                => InOutput(i)

\* C6: the kept lines, and the written file, are an order-preserving
\* subsequence of the input: kept line k is input line kept[k] unmodified,
\* and the positions strictly increase (no line twice, order preserved).
C6_OutputIsSubsequence ==
    /\ Len(schema_lines) = Len(kept)
    /\ \A k \in 1..Len(kept) :
           /\ kept[k] \in 1..Len(lines)
           /\ schema_lines[k] = lines[kept[k]]
           /\ (k > 1 => kept[k - 1] < kept[k])
    /\ (xresult # "running" => written = schema_lines)

C6_Witness ==
    /\ xresult = "true"
    /\ Len(written) >= 2
    /\ Len(written) < Len(lines)
    /\ \E k \in 1..Len(written) : written[k].lead # ""

\* C7: no data-defining line is ever kept or written: no COPY or INSERT INTO
\* line, no line of a COPY block up to and including its \. marker, and no
\* continuation line of a multi-line INSERT.
C7_NoDataLineKept ==
    /\ \A k \in 1..Len(kept) : ~IsDataLine(kept[k])
    /\ (xresult # "running" => Len(written) = Len(kept))

C7_Witness ==
    /\ xresult = "true"
    /\ Len(written) > 0
    /\ \E i \in 1..Len(lines) : ~IsCopyLine(i) /\ InCopySpan(i)
    /\ \E i \in 1..Len(lines) : IsInsertContinuation(i)

\* C15: outside a COPY block, once a line of an INSERT statement is handled
\* (the INSERT INTO line or a line continuing it), the suppression is over
\* exactly when that line ends in ";": the next line is then classified
\* afresh; otherwise the statement goes on, and the line was not kept.
\* (Violated: an INSERT INTO line ending in ";" leaves the flag set.)
C15_InsertEndsWithStatement ==
    (xi >= 1 /\ ~InCopySpan(xi) /\ (IsInsertLine(xi) \/ IsInsertContinuation(xi))) =>
        /\ in_insert_block = ~StripUpper(lines[xi]).semi
        /\ \A k \in 1..Len(kept) : kept[k] # xi

\* C16: once extract_schema has returned, the output file holds the kept
\* lines and the result is success, whatever the input, the empty file
\* included.  (Violated: the reduction percentage divides by zero.)
C16_DiagnosticsObservational ==
    xresult # "running" => (written = schema_lines /\ xresult = "true")

(***************************************************************************)
(* OrderedDict / dict: a sequence of entries, each with a unique name.     *)
(***************************************************************************)
HasKey(d, n) == \E k \in 1..Len(d) : d[k].name = n

KeyIndex(d, n) == CHOOSE k \in 1..Len(d) : d[k].name = n

Get(d, n) == d[KeyIndex(d, n)]

\* d[n] = e: an existing key keeps its position
Put(d, e) ==
    IF HasKey(d, e.name) THEN [d EXCEPT ![KeyIndex(d, e.name)] = e] ELSE Append(d, e)

Keys(d) == [k \in 1..Len(d) |-> d[k].name]

RECURSIVE RemoveFirst(_, _)
\* list.remove(x): drops the first element equal to x
RemoveFirst(s, x) ==
    IF s = <<>> THEN <<>>
    ELSE IF Head(s) = x THEN Tail(s)
    ELSE <<Head(s)>> \o RemoveFirst(Tail(s), x)

RECURSIVE Flatten(_)
Flatten(ss) == IF ss = <<>> THEN <<>> ELSE Head(ss) \o Flatten(Tail(ss))

(***************************************************************************)
(* DDL lines, by the statement they spell.                                 *)
(***************************************************************************)
\* "CREATE TABLE t (" when body is empty; with a body, the whole statement
\* on one line: "CREATE TABLE t (c1 type NOT NULL, c2 type);"
DCreateTable(t, body) == [k |-> "create_table", table |-> t, body |-> body]

\* "    name type [NOT NULL] [DEFAULT value] [inline constraint],"
DColumn(name, type, not_null, default) ==
    [k |-> "column", name |-> name, type |-> type, not_null |-> not_null,
     default |-> default, inline |-> FALSE]

DEnd == [k |-> "end"]         \* ");"

DBlank == [k |-> "blank"]

DComment == [k |-> "comment"] \* "-- Name: users; Type: TABLE"

DCreateSequence(s) == [k |-> "create_sequence", seq |-> s]

\* "ALTER SEQUENCE s OWNED BY t.c;"
DOwnedBy(s, t, c) == [k |-> "owned_by", seq |-> s, table |-> t, column |-> c]

PrimaryKey(cols) ==
    [type |-> "PRIMARY KEY", columns |-> cols, ref_table |-> None,
     ref_columns |-> <<>>, deferrable |-> FALSE]

Unique(cols) ==
    [type |-> "UNIQUE", columns |-> cols, ref_table |-> None,
     ref_columns |-> <<>>, deferrable |-> FALSE]

ForeignKey(cols, ref_table, ref_cols, deferrable) ==
    [type |-> "FOREIGN KEY", columns |-> cols, ref_table |-> ref_table,
     ref_columns |-> ref_cols, deferrable |-> deferrable]

\* "ALTER TABLE t ADD CONSTRAINT n <con>;" on one line
DAlterConstraint(t, con) == [k |-> "alter_constraint", table |-> t, con |-> con]

\* "ALTER TABLE ONLY t", the first line of a two-line statement
DAlterHead(t) == [k |-> "alter_head", table |-> t]

\* "    ADD CONSTRAINT n <con>;", the second line
DAddConstraint(con) == [k |-> "add_constraint", con |-> con]

\* "ALTER TABLE t OWNER TO o;"
DAlterOwner(t, o) == [k |-> "alter_owner", table |-> t, owner |-> o]

\* "CREATE [UNIQUE] INDEX n ON t USING btree (c1 [opclass], ...);"
\* cols: a sequence of [name, ops], ops the operator class or ""
DCreateIndex(n, t, cols, unique) ==
    [k |-> "create_index", name |-> n, table |-> t, cols |-> cols, unique |-> unique]

\* ---- what the parser tests on a stripped line
DStartsCreateTable(l) == l.k = "create_table"

DStartsCreateSequence(l) == l.k = "create_sequence"

DHasSequenceOwnedBy(l) == l.k = "owned_by"

DStartsAlterTable(l) == l.k \in {"alter_constraint", "alter_head", "alter_owner"}

DHasAddConstraint(l) == l.k \in {"alter_constraint", "add_constraint"}

DHasOwnerTo(l) == l.k = "alter_owner"

DStartsCreateHasIndex(l) == l.k = "create_index"

\* identifiers whose upper-cased text holds UNIQUE
NameHasUnique(n) == n \in {"unique_code"}

\* identifiers whose upper-cased text holds one of CONSTRAINT, PRIMARY KEY,
\* FOREIGN KEY, UNIQUE, CHECK
NameHasConstraintKeyword(n) == NameHasUnique(n) \/ n \in {"check_in_date"}

\* 'UNIQUE' in line.upper() for a CREATE INDEX line
IndexLineHasUnique(l) ==
    \/ l.unique
    \/ NameHasUnique(l.name)
    \/ \E k \in 1..Len(l.cols) : NameHasUnique(l.cols[k].name)

\* 'NOT NULL' in line.upper() for any line
DHasNotNull(l) ==
    CASE l.k = "column" -> l.not_null
      [] l.k = "create_table" -> \E k \in 1..Len(l.body) : l.body[k].not_null
      [] OTHER -> FALSE

\* lines 145-152, on the strings of the model.  The caller hands in parts[1],
\* a single whitespace-free token.
simplify_type(col_type) ==
    CASE col_type = "character varying(50)" -> "varchar"
      [] col_type = "character(10)" -> "char"
      [] col_type = "timestamp with time zone" -> "timestamptz"
      [] col_type = "timestamp without time zone" -> "timestamp"
      [] OTHER -> col_type

\* line.upper() of the token after DEFAULT
UpperToken(v) ==
    CASE v = "'n/a'" -> "'N/A'"
      [] v = "now()" -> "NOW()"
      [] OTHER -> v

Column(name, type, not_null, default) ==
    [name |-> name, type |-> type, not_null |-> not_null, default |-> default,
     auto_pk |-> FALSE]

\* lines 112-143: the column a line of a CREATE TABLE block is stored as
\* (parts[0], parts[1] of its text), as a one-element sequence; <<>> when the
\* line is skipped
LineAsColumn(l) ==
    CASE l.k = "column" ->
            IF l.inline \/ NameHasConstraintKeyword(l.name) THEN <<>>
            ELSE <<Column(l.name, simplify_type(l.type[1]), l.not_null,
                          IF l.default = None THEN None ELSE UpperToken(l.default))>>
      [] l.k = "create_table" -> <<Column("CREATE", "TABLE", DHasNotNull(l), None)>>
      [] l.k = "create_sequence" -> <<Column("CREATE", "SEQUENCE", FALSE, None)>>
      [] l.k = "owned_by" -> <<Column("ALTER", "SEQUENCE", FALSE, None)>>
      [] l.k \in {"alter_head", "alter_owner"} -> <<Column("ALTER", "TABLE", FALSE, None)>>
      [] l.k = "create_index" ->
            IF IndexLineHasUnique(l) THEN <<>>
            ELSE <<Column("CREATE", "INDEX", FALSE, None)>>
      [] OTHER -> <<>>   \* ADD CONSTRAINT lines hold CONSTRAINT

NewTable(t) == [name |-> t, columns |-> <<>>, constraints |-> <<>>, indexes |-> <<>>]

\* lines 112-143
parse_column_definition(tbls, l, t) ==
    LET col == LineAsColumn(l)
    IN  IF col = <<>> THEN tbls
        ELSE [tbls EXCEPT ![KeyIndex(tbls, t)].columns = Put(@, col[1])]

RECURSIVE ParseBlockOf(_, _, _, _)
\* lines 98-110 over the lines ls: the inner loop from 0-based index i;
\* returns the tables and the index it stopped at
ParseBlockOf(ls, tbls, t, i) ==
    IF i >= Len(ls) THEN [tables |-> tbls, i |-> i]
    ELSE LET l == ls[i + 1]
         IN  IF l.k = "end" THEN [tables |-> tbls, i |-> i]
             ELSE ParseBlockOf(ls,
                               IF l.k \in {"blank", "comment"} THEN tbls
                               ELSE parse_column_definition(tbls, l, t),
                               t, i + 1)

\* lines 98-110 on the file being parsed
ParseBlock(tbls, t, i) == ParseBlockOf(dump, tbls, t, i)

\* lines 78-110 over the lines ls
parse_create_table_of(ls, tbls, start_idx) ==
    LET t == ls[start_idx + 1].table
    IN  ParseBlockOf(ls, IF HasKey(tbls, t) THEN tbls ELSE Append(tbls, NewTable(t)),
                     t, start_idx + 1)

\* lines 78-110
parse_create_table(tbls, start_idx) == parse_create_table_of(dump, tbls, start_idx)

\* lines 176-236: con is the constraint the (possibly joined) line spells
parse_alter_table_constraint(tbls, t, con) ==
    IF ~HasKey(tbls, t) THEN tbls
    ELSE [tbls EXCEPT ![KeyIndex(tbls, t)].constraints = Append(@, con)]

\* lines 260-278; like_ops columns lose their operator class
IndexOfLine(l) ==
    LET like_ops == \E k \in 1..Len(l.cols) : l.cols[k].ops # ""
    IN  [name |-> l.name,
         columns |-> [k \in 1..Len(l.cols) |-> l.cols[k].name],
         unique |-> IndexLineHasUnique(l),
         like_ops |-> like_ops]

\* lines 238-281
parse_create_index(tbls, l) ==
    IF ~HasKey(tbls, l.table) THEN tbls
    ELSE [tbls EXCEPT ![KeyIndex(tbls, l.table)].indexes = Append(@, IndexOfLine(l))]

\* lines 41-44
OwnerAfter(l) ==
    IF DStartsAlterTable(l) /\ DHasOwnerTo(l) /\ default_owner = None
    THEN l.owner ELSE default_owner

DCur == dump[pidx + 1]

DParsing == phase = "parse" /\ pidx < Len(dump)

\* lines 47-48
ParseCreateTable ==
    /\ DParsing
    /\ DStartsCreateTable(DCur)
    /\ LET r == parse_create_table(tables, pidx)
       IN  tables' = r.tables /\ pidx' = r.i + 1
    /\ UNCHANGED <<dump, phase, sequences, default_owner, pre_tables, compact>>
    /\ DFrame

\* lines 51-52, 154-163
ParseCreateSequence ==
    /\ DParsing
    /\ DStartsCreateSequence(DCur)
    /\ sequences' = Put(sequences, [name |-> DCur.seq, owned_by |-> <<>>])
    /\ pidx' = pidx + 1
    /\ UNCHANGED <<dump, phase, tables, default_owner, pre_tables, compact>>
    /\ DFrame

\* lines 55-56, 165-174
ParseSequenceOwnedBy ==
    /\ DParsing
    /\ DHasSequenceOwnedBy(DCur)
    /\ sequences' = IF HasKey(sequences, DCur.seq)
                    THEN Put(sequences, [name |-> DCur.seq,
                                         owned_by |-> <<DCur.table, DCur.column>>])
                    ELSE sequences
    /\ pidx' = pidx + 1
    /\ UNCHANGED <<dump, phase, tables, default_owner, pre_tables, compact>>
    /\ DFrame

\* lines 59-60
ParseAlterConstraint ==
    /\ DParsing
    /\ DStartsAlterTable(DCur) /\ DHasAddConstraint(DCur)
    /\ tables' = parse_alter_table_constraint(tables, DCur.table, DCur.con)
    /\ pidx' = pidx + 1
    /\ UNCHANGED <<dump, phase, sequences, default_owner, pre_tables, compact>>
    /\ DFrame

\* lines 61-67: the next line holds ADD CONSTRAINT; the joined text names
\* this line's table first
ParseAlterJoin ==
    /\ DParsing
    /\ DStartsAlterTable(DCur) /\ ~DHasAddConstraint(DCur)
    /\ pidx + 1 < Len(dump) /\ DHasAddConstraint(dump[pidx + 2])
    /\ tables' = parse_alter_table_constraint(tables, DCur.table, dump[pidx + 2].con)
    /\ default_owner' = OwnerAfter(DCur)
    /\ pidx' = pidx + 2
    /\ UNCHANGED <<dump, phase, sequences, pre_tables, compact>>
    /\ DFrame

\* lines 61-63: an ALTER TABLE line with nothing to join
ParseAlterOther ==
    /\ DParsing
    /\ DStartsAlterTable(DCur) /\ ~DHasAddConstraint(DCur)
    /\ ~(pidx + 1 < Len(dump) /\ DHasAddConstraint(dump[pidx + 2]))
    /\ default_owner' = OwnerAfter(DCur)
    /\ pidx' = pidx + 1
    /\ UNCHANGED <<dump, phase, tables, sequences, pre_tables, compact>>
    /\ DFrame

\* lines 70-71
ParseCreateIndex ==
    /\ DParsing
    /\ DStartsCreateHasIndex(DCur)
    /\ tables' = parse_create_index(tables, DCur)
    /\ pidx' = pidx + 1
    /\ UNCHANGED <<dump, phase, sequences, default_owner, pre_tables, compact>>
    /\ DFrame

\* line 73 alone: no branch takes the line
ParseSkip ==
    /\ DParsing
    /\ DCur.k \in {"column", "end", "blank", "comment", "add_constraint"}
    /\ pidx' = pidx + 1
    /\ UNCHANGED <<dump, phase, tables, sequences, default_owner, pre_tables, compact>>
    /\ DFrame

\* lines 294-297 over the sequences seqs
OwnedByOneOf(seqs, t, c) == \E k \in 1..Len(seqs) : seqs[k].owned_by = <<t, c>>

\* seq_info['owned_by'] names (t, c) for some sequence
OwnedBySomeSequence(t, c) == OwnedByOneOf(sequences, t, c)

\* lines 300-301
MarkAutoPk(cols, c) ==
    [k \in 1..Len(cols) |-> IF cols[k].name = c THEN [cols[k] EXCEPT !.auto_pk = TRUE]
                            ELSE cols[k]]

\* lines 303-304 left out: the constraint stays
DropConstraint_keep(cons, pk) == cons

\* lines 303-304
DropConstraint(cons, pk) == RemoveFirst(cons, pk)

RECURSIVE AutoPkTableOf(_, _, _)
\* lines 289-305 for one table, with the sequences seqs; pks: the PRIMARY KEY
\* constraints still to visit
AutoPkTableOf(seqs, tab, pks) ==
    IF pks = <<>> THEN tab
    ELSE LET pk == Head(pks)
         IN  IF Len(pk.columns) = 1 /\ OwnedByOneOf(seqs, tab.name, pk.columns[1])
             THEN AutoPkTableOf(seqs,
                                [tab EXCEPT !.columns = MarkAutoPk(@, pk.columns[1]),
                                            !.constraints = DropConstraint(@, pk)],
                                Tail(pks))
             ELSE AutoPkTableOf(seqs, tab, Tail(pks))

\* lines 289-305 for one table
AutoPkTable(tab, pks) == AutoPkTableOf(sequences, tab, pks)

OfType(cons, type) == SelectSeq(cons, LAMBDA c : c.type = type)

\* lines 283-305 with the sequences seqs
identify_auto_pk_columns_of(seqs, tbls) ==
    [k \in 1..Len(tbls) |->
        AutoPkTableOf(seqs, tbls[k], OfType(tbls[k].constraints, "PRIMARY KEY"))]

\* lines 283-305
identify_auto_pk_columns(tbls) ==
    [k \in 1..Len(tbls) |-> AutoPkTable(tbls[k], OfType(tbls[k].constraints, "PRIMARY KEY"))]

\* lines 38-73: one iteration of the loop over the lines ls, on the parser
\* state st = [i, tables, sequences, default_owner]
ParseStep(ls, st) ==
    LET l == ls[st.i + 1]
        owner == IF DStartsAlterTable(l) /\ DHasOwnerTo(l) /\ st.default_owner = None
                 THEN l.owner ELSE st.default_owner
    IN  IF DStartsCreateTable(l)
        THEN LET r == parse_create_table_of(ls, st.tables, st.i)
             IN  [st EXCEPT !.tables = r.tables, !.i = r.i + 1]
        ELSE IF DStartsCreateSequence(l)
        THEN [st EXCEPT !.sequences = Put(@, [name |-> l.seq, owned_by |-> <<>>]),
                        !.i = @ + 1]
        ELSE IF DHasSequenceOwnedBy(l)
        THEN [st EXCEPT !.sequences =
                            IF HasKey(@, l.seq)
                            THEN Put(@, [name |-> l.seq, owned_by |-> <<l.table, l.column>>])
                            ELSE @,
                        !.i = @ + 1]
        ELSE IF DStartsAlterTable(l) /\ DHasAddConstraint(l)
        THEN [st EXCEPT !.tables = parse_alter_table_constraint(@, l.table, l.con),
                        !.i = @ + 1]
        ELSE IF DStartsAlterTable(l)
        THEN IF st.i + 1 < Len(ls) /\ DHasAddConstraint(ls[st.i + 2])
             THEN [st EXCEPT !.tables = parse_alter_table_constraint(@, l.table,
                                                                     ls[st.i + 2].con),
                             !.default_owner = owner,
                             !.i = @ + 2]
             ELSE [st EXCEPT !.default_owner = owner, !.i = @ + 1]
        ELSE IF DStartsCreateHasIndex(l)
        THEN [st EXCEPT !.tables = parse_create_index(@, l), !.i = @ + 1]
        ELSE [st EXCEPT !.i = @ + 1]

RECURSIVE ParseLoop(_, _)
\* lines 36-73
ParseLoop(ls, st) == IF st.i >= Len(ls) THEN st ELSE ParseLoop(ls, ParseStep(ls, st))

\* lines 26-32 and 34-76: a new SchemaCompressor parses the lines ls
parse_schema(ls) ==
    LET st == ParseLoop(ls, [i |-> 0, tables |-> <<>>, sequences |-> <<>>,
                             default_owner |-> None])
    IN  [tables |-> identify_auto_pk_columns_of(st.sequences, st.tables),
         pre_tables |-> st.tables,
         sequences |-> st.sequences,
         default_owner |-> st.default_owner]

\* line 76: the loop is over, the post-pass runs
IdentifyAutoPk ==
    /\ phase = "parse"
    /\ pidx >= Len(dump)
    /\ pre_tables' = tables
    /\ tables' = identify_auto_pk_columns(tables)
    /\ phase' = "generate"
    /\ UNCHANGED <<dump, pidx, sequences, default_owner, compact>>
    /\ DFrame

(***************************************************************************)
(* Compact text: one record per line; indent is the count of leading       *)
(* blanks of the raw line.                                                 *)
(***************************************************************************)
\* "-- Schema: public[, Owner: o]"
CComment(owner) == [k |-> "comment", indent |-> 0, owner |-> owner]

CBlank == [k |-> "blank", indent |-> 0]

\* "t:"
CTable(name) == [k |-> "table", indent |-> 0, name |-> name]

\* "  c: PK"
CPkCol(name) == [k |-> "pkcol", indent |-> 2, name |-> name]

\* "  c: type[ NOT NULL][ DEFAULT v]"
CCol(name, type, not_null, default) ==
    [k |-> "col", indent |-> 2, name |-> name, type |-> type, not_null |-> not_null,
     default |-> default]

\* "  FK (c) > t(r)[ DEFERRABLE]"
CFk(local, ref_table, ref_col, deferrable) ==
    [k |-> "fk", indent |-> 2, local |-> local, ref_table |-> ref_table,
     ref_col |-> ref_col, deferrable |-> deferrable]

\* "  UNIQUE (c1, c2)"
CUnique(cols) == [k |-> "unique", indent |-> 2, cols |-> cols]

\* "  PRIMARY KEY (c1, c2)"
CPk(cols) == [k |-> "pk", indent |-> 2, cols |-> cols]

\* "  IDX (c1, c2)[ (LIKE)][ UNIQUE]"
CIdx(cols, like, unique) ==
    [k |-> "idx", indent |-> 2, cols |-> cols, like |-> like, unique |-> unique]

\* "  c:", a column line with nothing behind the colon
CBareCol(name) == [k |-> "table", indent |-> 2, name |-> name]

\* "  FK (a) -> b(c)": the FK prefix, not the FK pattern
CFkArrow ==
    [k |-> "fk", indent |-> 2, local |-> "", ref_table |-> "", ref_col |-> "",
     deferrable |-> FALSE]

\* "  UNIQUE (email): x", a prefixed line that holds a colon
CUniqueColon == [k |-> "unique", indent |-> 2, cols |-> <<"email">>, colon |-> TRUE]

\* "  owner_id integer": indented, no prefix and no colon
CJunk == [k |-> "junk", indent |-> 2]

\* lines 324-333
ColumnLine(c) ==
    IF c.auto_pk THEN CPkCol(c.name) ELSE CCol(c.name, c.type, c.not_null, c.default)

\* line 339 without the index: every pair names the first referenced column
RefColumn_first(con, i) == con.ref_columns[1]

\* line 339
RefColumn(con, i) ==
    IF i <= Len(con.ref_columns) THEN con.ref_columns[i] ELSE con.ref_columns[1]

\* lines 337-343 cut short: one line for the whole constraint
FkLines_first_only(con) ==
    <<CFk(con.columns[1], con.ref_table, RefColumn(con, 1), con.deferrable)>>

\* lines 337-343
FkLines(con) ==
    [i \in 1..Len(con.columns) |->
        CFk(con.columns[i], con.ref_table, RefColumn(con, i), con.deferrable)]

\* lines 336-351
ConstraintLines(con) ==
    CASE con.type = "FOREIGN KEY" -> FkLines(con)
      [] con.type = "UNIQUE" -> <<CUnique(con.columns)>>
      [] con.type = "PRIMARY KEY" -> <<CPk(con.columns)>>

\* lines 354-361
IndexLine(ix) == CIdx(ix.columns, ix.like_ops, ix.unique)

\* lines 320-363
TableLines(tab) ==
    <<CTable(tab.name)>>
    \o [k \in 1..Len(tab.columns) |-> ColumnLine(tab.columns[k])]
    \o Flatten([k \in 1..Len(tab.constraints) |-> ConstraintLines(tab.constraints[k])])
    \o [k \in 1..Len(tab.indexes) |-> IndexLine(tab.indexes[k])]
    \o <<CBlank>>

\* lines 307-365
generate_compressed_schema(tbls) ==
    <<CComment(default_owner), CBlank>>
    \o Flatten([k \in 1..Len(tbls) |-> TableLines(tbls[k])])

GenerateCompressed ==
    /\ phase = "generate"
    /\ compact' = generate_compressed_schema(tables)
    /\ phase' = "cparse"
    /\ UNCHANGED <<dump, pidx, tables, sequences, default_owner, pre_tables>>
    /\ DFrame

(***************************************************************************)
(* Compact parser: step_03_generate_context.py                             *)
(***************************************************************************)
\* ---- what the parser tests on a line
CStrippedEmpty(l) == l.k = "blank"

CStartsDashes(l) == l.k = "comment"

CEndsColon(l) == l.k = "table"

CStartsSpace(l) == l.indent >= 1

CStartsTwoSpaces(l) == l.indent >= 2

CHasColon(l) == l.k \in {"table", "col", "pkcol"} \/ "colon" \in DOMAIN l

\* the stripped line starts with 'FK (', 'UNIQUE (', 'IDX (' or 'PRIMARY KEY ('
CStartsPrefix(l) == l.k \in {"fk", "unique", "idx", "pk"}

\* original_line.startswith('  FK (') and its like
COrigStarts(l, kind) == l.indent = 2 /\ l.k = kind

\* types whose text starts with PK
TypeStartsPK(t) == t \in {"PK", "PKEY"}

\* ': PK' in line
CHasColonPK(l) == l.k = "pkcol" \/ (l.k = "col" /\ TypeStartsPK(l.type))

\* name.strip('"')
StripQuotes(n) ==
    CASE n = "\"note\"" -> "note"
      [] OTHER -> n

\* s.lower() of a type token
LowerType(t) ==
    CASE t = "TABLE" -> "table"
      [] t = "SEQUENCE" -> "sequence"
      [] t = "INDEX" -> "index"
      [] t = "TEXT" -> "text"
      [] OTHER -> t

\* re.search(r'\(([^)]+)\)'): the parenthesised list must hold a character
ListMatches(cols) == cols # <<>> /\ ~(Len(cols) = 1 /\ cols[1] = "")

NewCTable(name) ==
    [name |-> name, columns |-> <<>>, primary_keys |-> <<>>, foreign_keys |-> <<>>,
     unique_constraints |-> <<>>, indexes |-> <<>>, column_types |-> <<>>,
     nullable_columns |-> 0, required_columns |-> 0]

\* Counter: c[key] += 1
CounterInc(c, key) ==
    IF HasKey(c, key) THEN [c EXCEPT ![KeyIndex(c, key)].count = @ + 1]
    ELSE Append(c, [name |-> key, count |-> 1])

CounterGet(c, key) == IF HasKey(c, key) THEN Get(c, key).count ELSE 0

\* lines 134-135: the type counted for a regular column
CountedType(l) == LowerType(l.type)

\* lines 118, 127: the stored column name
StoredColumnName(l) == StripQuotes(l.name)

\* lines 111-141, on the entry of the current table
parse_column(tab, l) ==
    IF CHasColonPK(l)
    THEN [tab EXCEPT !.columns = Append(@, StoredColumnName(l)),
                     !.primary_keys = Append(@, StoredColumnName(l)),
                     !.column_types = CounterInc(@, "integer"),
                     !.required_columns = @ + 1]
    ELSE IF l.k = "col"
    THEN [tab EXCEPT !.columns = Append(@, StoredColumnName(l)),
                     !.column_types = CounterInc(@, CountedType(l)),
                     !.required_columns = IF l.not_null THEN @ + 1 ELSE @,
                     !.nullable_columns = IF l.not_null THEN @ ELSE @ + 1]
    ELSE [tab EXCEPT !.columns = Append(@, StoredColumnName(l))] \* "  name:", no type

\* lines 148-160
FkInfo(l, t) ==
    [from_table |-> t, from_column |-> l.local, to_table |-> l.ref_table,
     to_column |-> l.ref_col, deferrable |-> l.deferrable]

FkMatches(l) == l.local # "" /\ l.ref_col # ""

\* lines 185-198
IndexInfo(l) ==
    [columns |-> l.cols,
     unique |-> (l.unique \/ \E k \in 1..Len(l.cols) : NameHasUnique(l.cols[k])),
     like_ops |-> l.like]

\* identifiers that begin with FK, UNIQUE, IDX or PRIMARY
NameStartsPrefixWord(n) == n \in {"FK_owner"}

\* 03_generate_context.py, lines 98-101: original_line.startswith('  FK'),
\* ('  UNIQUE'), ('  IDX') or ('  PRIMARY')
COrigStartsWord(l) ==
    /\ l.indent = 2
    /\ \/ l.k \in {"fk", "unique", "idx", "pk"}
       \/ l.k \in {"col", "pkcol", "table"} /\ NameStartsPrefixWord(l.name)

\* lines 93-94: the test of the column branch
IsColumnLine(l) == CStartsTwoSpaces(l) /\ CHasColon(l) /\ ~CStartsPrefix(l)

\* 03_generate_context.py, lines 97-101: the test of the column branch
IsColumnLine_03(l) == CStartsTwoSpaces(l) /\ CHasColon(l) /\ ~COrigStartsWord(l)

\* lines 93-103: the branch of the if/elif chain a line inside a table
\* context takes, is_column being the outcome of the column branch's test
LineBranch(l, is_column) ==
    IF is_column THEN "column"
    ELSE IF COrigStarts(l, "fk") THEN "fk"
    ELSE IF COrigStarts(l, "unique") THEN "unique"
    ELSE IF COrigStarts(l, "pk") THEN "pk"
    ELSE IF COrigStarts(l, "idx") THEN "idx"
    ELSE "none"

\* lines 73-109, one iteration, is_column being the outcome of the column
\* branch's test; m = [tables, relationships, current_table, printed].  The
\* handlers of lines 95-103 raise on no line of text, so that the except
\* branch of lines 104-109, the only place that prints, is not entered.
ParseCompactLineWith(m, l, is_column) ==
    LET t == m.current_table
        OnTable(f) == [m EXCEPT !.tables[KeyIndex(m.tables, t)] = f]
        tab == Get(m.tables, t)
        branch == LineBranch(l, is_column)
    IN  IF CStrippedEmpty(l) \/ CStartsDashes(l) THEN m
        ELSE IF CEndsColon(l) /\ ~CStartsSpace(l)
        THEN [m EXCEPT !.current_table = l.name, !.tables = Put(@, NewCTable(l.name))]
        ELSE IF t = None THEN m
        ELSE IF branch = "column"
        THEN OnTable(parse_column(tab, l))
        ELSE IF branch = "fk"
        THEN IF FkMatches(l)
             THEN [OnTable([tab EXCEPT !.foreign_keys = Append(@, FkInfo(l, t))])
                   EXCEPT !.relationships = Append(@, FkInfo(l, t))]
             ELSE m
        ELSE IF branch = "unique"
        THEN IF ListMatches(l.cols)
             THEN OnTable([tab EXCEPT !.unique_constraints = Append(@, l.cols)])
             ELSE m
        ELSE IF branch = "pk"
        THEN IF ListMatches(l.cols)
             THEN OnTable([tab EXCEPT !.primary_keys = @ \o l.cols])
             ELSE m
        ELSE IF branch = "idx"
        THEN IF ListMatches(l.cols)
             THEN OnTable([tab EXCEPT !.indexes = Append(@, IndexInfo(l))])
             ELSE m
        ELSE m

\* lines 73-109, one iteration
ParseCompactLine(m, l) == ParseCompactLineWith(m, l, IsColumnLine(l))

\* 03_generate_context.py, lines 73-121, one iteration
ParseCompactLine_03(m, l) == ParseCompactLineWith(m, l, IsColumnLine_03(l))

RECURSIVE DropLeadingBlank(_)
DropLeadingBlank(text) ==
    IF text # <<>> /\ Head(text).k = "blank" THEN DropLeadingBlank(Tail(text)) ELSE text

RECURSIVE DropTrailingBlank(_)
DropTrailingBlank(text) ==
    IF text # <<>> /\ text[Len(text)].k = "blank"
    THEN DropTrailingBlank(SubSeq(text, 1, Len(text) - 1)) ELSE text

\* line 70: schema_content.strip().split('\n')
StripSplit(text) ==
    LET body == DropTrailingBlank(DropLeadingBlank(text))
    IN  IF body = <<>> THEN <<CBlank>>
        ELSE <<[body[1] EXCEPT !.indent = 0]>> \o Tail(body)

RECURSIVE ParseCompactLines(_, _)
ParseCompactLines(m, ls) ==
    IF ls = <<>> THEN m ELSE ParseCompactLines(ParseCompactLine(m, Head(ls)), Tail(ls))

\* lines 70-71: the loop's state before its first line
CompactStart(tbls, rels) ==
    [tables |-> tbls, relationships |-> rels, current_table |-> None, printed |-> <<>>]

\* lines 67-109
parse_compressed_schema(tbls, rels, text) ==
    ParseCompactLines(CompactStart(tbls, rels), StripSplit(text))

RECURSIVE ParseCompactLines_03(_, _)
ParseCompactLines_03(m, ls) ==
    IF ls = <<>> THEN m
    ELSE ParseCompactLines_03(ParseCompactLine_03(m, Head(ls)), Tail(ls))

\* 03_generate_context.py, lines 67-121
parse_compressed_schema_03(tbls, rels, text) ==
    ParseCompactLines_03(CompactStart(tbls, rels), StripSplit(text))

ParseCompressed ==
    /\ phase = "cparse"
    /\ LET m == parse_compressed_schema(ctables, relationships, compact)
       IN  ctables' = m.tables /\ relationships' = m.relationships
    /\ phase' = "stats"
    /\ UNCHANGED <<settings, statistics, stats_log>>
    /\ CFrame

(***************************************************************************)
(* Fallback categorization.  Table names and keywords are compared as      *)
(* character sequences.                                                    *)
(***************************************************************************)
NameChars(n) ==
    CASE n = "users" -> <<"u", "s", "e", "r", "s">>
      [] n = "orders" -> <<"o", "r", "d", "e", "r", "s">>
      [] n = "user_log" -> <<"u", "s", "e", "r", "_", "l", "o", "g">>
      [] n = "AuditLog" -> <<"A", "u", "d", "i", "t", "L", "o", "g">>
      [] n = "api_cache" -> <<"a", "p", "i", "_", "c", "a", "c", "h", "e">>
      [] n = "Settings" -> <<"S", "e", "t", "t", "i", "n", "g", "s">>
      [] n = "broken" -> <<"b", "r", "o", "k", "e", "n">>
      [] n = "auth" -> <<"a", "u", "t", "h">>
      [] n = "user" -> <<"u", "s", "e", "r">>
      [] n = "permission" -> <<"p", "e", "r", "m", "i", "s", "s", "i", "o", "n">>
      [] n = "role" -> <<"r", "o", "l", "e">>
      [] n = "token" -> <<"t", "o", "k", "e", "n">>
      [] n = "session" -> <<"s", "e", "s", "s", "i", "o", "n">>
      [] n = "log" -> <<"l", "o", "g">>
      [] n = "audit" -> <<"a", "u", "d", "i", "t">>
      [] n = "change" -> <<"c", "h", "a", "n", "g", "e">>
      [] n = "history" -> <<"h", "i", "s", "t", "o", "r", "y">>
      [] n = "event" -> <<"e", "v", "e", "n", "t">>
      [] n = "config" -> <<"c", "o", "n", "f", "i", "g">>
      [] n = "setting" -> <<"s", "e", "t", "t", "i", "n", "g">>
      [] n = "param" -> <<"p", "a", "r", "a", "m">>
      [] n = "lookup" -> <<"l", "o", "o", "k", "u", "p">>
      [] n = "type" -> <<"t", "y", "p", "e">>
      [] n = "status" -> <<"s", "t", "a", "t", "u", "s">>
      [] n = "category" -> <<"c", "a", "t", "e", "g", "o", "r", "y">>
      [] n = "api" -> <<"a", "p", "i">>
      [] n = "webhook" -> <<"w", "e", "b", "h", "o", "o", "k">>
      [] n = "external" -> <<"e", "x", "t", "e", "r", "n", "a", "l">>
      [] n = "import" -> <<"i", "m", "p", "o", "r", "t">>
      [] n = "export" -> <<"e", "x", "p", "o", "r", "t">>
      [] n = "sync" -> <<"s", "y", "n", "c">>
      [] n = "temp" -> <<"t", "e", "m", "p">>
      [] n = "cache" -> <<"c", "a", "c", "h", "e">>
      [] n = "queue" -> <<"q", "u", "e", "u", "e">>
      [] n = "pending" -> <<"p", "e", "n", "d", "i", "n", "g">>
      [] n = "order" -> <<"o", "r", "d", "e", "r">>
      [] n = "" -> <<>>

LowerChar(c) ==
    CASE c = "A" -> "a"
      [] c = "L" -> "l"
      [] c = "S" -> "s"
      [] OTHER -> c

\* table_name.lower()
LowerChars(cs) == [k \in 1..Len(cs) |-> LowerChar(cs[k])]

\* keyword in name_lower
Contains(sub, cs) ==
    \E i \in 0..(Len(cs) - Len(sub)) : SubSeq(cs, i + 1, i + Len(sub)) = sub

\* line 423 without .lower()
NameLower_raw(table_name) == NameChars(table_name)

\* line 423
NameLower(table_name) == LowerChars(NameChars(table_name))

\* line 428
CategoryMatches(entry, table_name) ==
    \E k \in 1..Len(entry.keywords) :
        Contains(NameChars(entry.keywords[k]), NameLower(table_name))

\* categories[category].append(table_name)
BucketAppend(cats, category, table_name) ==
    [cats EXCEPT ![KeyIndex(cats, category)].tables = Append(@, table_name)]

\* lines 419-420
InitialCategories(category_keywords) ==
    Put([k \in 1..Len(category_keywords) |->
            [name |-> category_keywords[k].name, tables |-> <<>>]],
        [name |-> "business_core", tables |-> <<>>])

RECURSIVE FirstMatch(_, _, _)
\* lines 427-431: the inner loop from entry k on; 0 when it ends without a break
FirstMatch(category_keywords, table_name, k) ==
    IF k > Len(category_keywords) THEN 0
    ELSE IF CategoryMatches(category_keywords[k], table_name) THEN k
    ELSE FirstMatch(category_keywords, table_name, k + 1)

\* lines 422-435 for one table
CategorizeOne(cats, category_keywords, table_name) ==
    LET k == FirstMatch(category_keywords, table_name, 1)
    IN  IF k > 0 THEN BucketAppend(cats, category_keywords[k].name, table_name)
        ELSE BucketAppend(cats, "business_core", table_name)

RECURSIVE CategorizeFrom(_, _, _)
CategorizeFrom(cats, category_keywords, names) ==
    IF names = <<>> THEN cats
    ELSE CategorizeFrom(CategorizeOne(cats, category_keywords, Head(names)),
                        category_keywords, Tail(names))

\* lines 413-437
fallback_categorize_tables(tbls, category_keywords) ==
    CategorizeFrom(InitialCategories(category_keywords), category_keywords, Keys(tbls))

(***************************************************************************)
(* Statistics: generate_statistics, lines 200-289                          *)
(***************************************************************************)
RECURSIVE SumSeq(_)
SumSeq(ns) == IF ns = <<>> THEN 0 ELSE Head(ns) + SumSeq(Tail(ns))

RECURSIVE InsertDesc(_, _)
\* e goes after every pair whose count is at least its own: a stable sort
InsertDesc(sorted, e) ==
    IF sorted = <<>> THEN <<e>>
    ELSE IF Head(sorted)[2] >= e[2] THEN <<Head(sorted)>> \o InsertDesc(Tail(sorted), e)
    ELSE <<e>> \o sorted

RECURSIVE SortDesc(_)
\* sorted(pairs, key=lambda x: x[1], reverse=True)
SortDesc(pairs) ==
    IF pairs = <<>> THEN <<>>
    ELSE InsertDesc(SortDesc(SubSeq(pairs, 1, Len(pairs) - 1)), pairs[Len(pairs)])

Min2(a, b) == IF a < b THEN a ELSE b

\* s[:n], n >= 0
FirstItems(s, n) == SubSeq(s, 1, Min2(n, Len(s)))

\* s[-n:], n >= 0: the whole list when n = 0
LastItems(s, n) == IF n = 0 \/ n >= Len(s) THEN s ELSE SubSeq(s, Len(s) - n + 1, Len(s))

\* a Counter or defaultdict(int) as (key, count) pairs, in insertion order
Items(c) == [k \in 1..Len(c) |-> <<c[k].name, c[k].count>>]

RECURSIVE CounterUpdate(_, _)
\* all_types.update(counter)
CounterUpdate(c, other) ==
    IF other = <<>> THEN c
    ELSE LET e == Head(other)
             bumped == IF HasKey(c, e.name)
                       THEN [c EXCEPT ![KeyIndex(c, e.name)].count = @ + e.count]
                       ELSE Append(c, e)
         IN  CounterUpdate(bumped, Tail(other))

RECURSIVE AllTypes(_, _)
\* lines 213-215
AllTypes(c, tbls) ==
    IF tbls = <<>> THEN c
    ELSE AllTypes(CounterUpdate(c, Head(tbls).column_types), Tail(tbls))

RECURSIVE CountBy(_, _, _)
\* lines 230-232: one of the two defaultdict(int), keyed by the end named
CountBy(c, rels, end) ==
    IF rels = <<>> THEN c
    ELSE CountBy(CounterInc(c, IF end = "from" THEN Head(rels).from_table
                                ELSE Head(rels).to_table),
                 Tail(rels), end)

\* lines 227-232
fk_counts(rels) == CountBy(<<>>, rels, "from")

incoming_fk_counts(rels) == CountBy(<<>>, rels, "to")

\* lines 219-220
table_sizes(tbls) == SortDesc([k \in 1..Len(tbls) |-> <<tbls[k].name, Len(tbls[k].columns)>>])

\* line 224
smallest_tables(tbls, max_items) ==
    IF Len(tbls) > max_items THEN LastItems(table_sizes(tbls), max_items) ELSE <<>>

NamesWhere(tbls, Test(_)) ==
    LET hit == SelectSeq(tbls, Test) IN [k \in 1..Len(hit) |-> hit[k].name]

\* lines 271-276
self_referencing_tables(rels) ==
    LET hit == SelectSeq(rels, LAMBDA fk : fk.from_table = fk.to_table)
    IN  [k \in 1..Len(hit) |-> hit[k].from_table]

\* round(total / count, 2), in hundredths.  No quotient of the model is an exact
\* tie at the third decimal (that needs a count divisible by 8 or by 40).
Round2(total, count) == (200 * total + count) \div (2 * count)

\* lines 280-286: the two averages are set only when there is a table
Averages(table_count, total_columns, total_foreign_keys) ==
    IF table_count > 0
    THEN [avg_columns_per_table |-> Round2(total_columns, table_count),
          avg_fks_per_table |-> Round2(total_foreign_keys, table_count)]
    ELSE <<>>

\* lines 291-298 in fallback mode: enable_ai_categorization off, or on with
\* no API key or a failing AI call (lines 317-319, 408-411)
categorize_tables(tbls, cfg) == fallback_categorize_tables(tbls, cfg.fallback_categorization)

\* line 276 without line 271: the list of the call before is appended to
SelfReferencingAfter_kept(old, rels) == old \o self_referencing_tables(rels)

\* line 271 and 276: the list is made anew, then appended to
SelfReferencingAfter(old, rels) == self_referencing_tables(rels)

\* lines 200-289: the dict after the call, from the dict before it
generate_statistics(old, tbls, rels, cfg) ==
    LET max_items == cfg.max_displayed_items
        out == fk_counts(rels)
        inc == incoming_fk_counts(rels)
        total_columns == SumSeq([k \in 1..Len(tbls) |-> Len(tbls[k].columns)])
        prior == IF "self_referencing_tables" \in DOMAIN old
                 THEN old["self_referencing_tables"] ELSE <<>>
        fresh ==
          [table_count |-> Len(tbls),
           total_columns |-> total_columns,
           total_foreign_keys |-> Len(rels),
           total_required_columns |-> SumSeq([k \in 1..Len(tbls) |-> tbls[k].required_columns]),
           total_nullable_columns |-> SumSeq([k \in 1..Len(tbls) |-> tbls[k].nullable_columns]),
           data_type_distribution |-> SortDesc(Items(AllTypes(<<>>, tbls))),
           largest_tables |-> FirstItems(table_sizes(tbls), max_items),
           smallest_tables |-> smallest_tables(tbls, max_items),
           most_outgoing_fks |-> FirstItems(SortDesc(Items(out)), max_items),
           most_referenced_tables |-> FirstItems(SortDesc(Items(inc)), max_items),
           tables_without_outgoing_fks |->
               NamesWhere(tbls, LAMBDA tab : CounterGet(out, tab.name) = 0),
           never_referenced_tables |->
               NamesWhere(tbls, LAMBDA tab : CounterGet(inc, tab.name) = 0),
           total_unique_constraints |->
               SumSeq([k \in 1..Len(tbls) |-> Len(tbls[k].unique_constraints)]),
           total_indexes |-> SumSeq([k \in 1..Len(tbls) |-> Len(tbls[k].indexes)]),
           tables_with_composite_pk |->
               NamesWhere(tbls, LAMBDA tab : Len(tab.primary_keys) > 1),
           tables_without_pk |->
               NamesWhere(tbls, LAMBDA tab : Len(tab.primary_keys) = 0),
           self_referencing_tables |-> SelfReferencingAfter(prior, rels),
           table_categories |-> categorize_tables(tbls, cfg)]
    IN  Averages(Len(tbls), total_columns, Len(rels)) @@ fresh @@ old

\* calls of generate_statistics made on one parsed model
MaxStatsCalls == 2

\* one call of generate_statistics; the model it reads is left as it is
GenerateStatistics ==
    /\ phase = "stats"
    /\ Len(stats_log) < MaxStatsCalls
    /\ statistics' = generate_statistics(statistics, ctables, relationships, settings)
    /\ stats_log' = Append(stats_log, [statistics |-> statistics',
                                       tables |-> ctables, relationships |-> relationships])
    /\ UNCHANGED <<phase, settings, ctables, relationships>>
    /\ CFrame

(***************************************************************************)
(* The run: parse_schema, generate_compressed_schema,                      *)
(* parse_compressed_schema, generate_statistics (twice), over DDL files    *)
(* put together from the statements below.                                 *)
(***************************************************************************)
\* Most statements of a DDL file.
MaxStatements == 3

ColId == DColumn("id", <<"integer">>, TRUE, None)

ColEmail == DColumn("email", <<"varchar(255)">>, TRUE, None)

ColUserId == DColumn("user_id", <<"integer">>, TRUE, None)

ColNote == DColumn("\"note\"", <<"text">>, FALSE, "'n/a'")

ColUniqueCode == DColumn("unique_code", <<"integer">>, FALSE, None)

ColTitle == DColumn("title", <<"character", "varying(50)">>, FALSE, None)

ColCode == DColumn("code", <<"character(10)">>, FALSE, None)

ColCreatedAt == DColumn("created_at", <<"timestamp", "with", "time", "zone">>, TRUE, None)

ColUpdatedAt == DColumn("updated_at", <<"timestamp", "without", "time", "zone">>, FALSE, None)

Statements ==
    { \* -- Name: users / CREATE TABLE users ( / id ... / email ... / );
      <<DComment, DCreateTable("users", <<>>), ColId, ColEmail, DEnd>>,
      <<DCreateTable("orders", <<>>), ColId, ColUserId, ColNote, ColUniqueCode,
        ColTitle, ColCode, ColCreatedAt, ColUpdatedAt, DEnd>>,
      \* CREATE TABLE users (id integer NOT NULL, email varchar(255) NOT NULL);
      <<DCreateTable("users", <<ColId, ColEmail>>)>>,
      <<DCreateTable("orders", <<ColId, ColUserId>>)>>,
      \* ALTER TABLE orders ADD CONSTRAINT fk FOREIGN KEY (user_id) REFERENCES users(id);
      <<DAlterConstraint("orders", ForeignKey(<<"user_id">>, "users", <<"id">>, FALSE))>>,
      \* ALTER TABLE ONLY users / ADD CONSTRAINT users_pkey PRIMARY KEY (id);
      <<DAlterHead("users"), DAddConstraint(PrimaryKey(<<"id">>))>>,
      <<DCreateSequence("users_id_seq"), DOwnedBy("users_id_seq", "users", "id")>>,
      <<DAlterConstraint("users", Unique(<<"email">>))>>,
      \* CREATE INDEX idx_orders_note ON orders USING btree (user_id, "note" varchar_pattern_ops);
      <<DCreateIndex("idx_orders_note", "orders",
                     << [name |-> "user_id", ops |-> ""],
                        [name |-> "\"note\"", ops |-> "varchar_pattern_ops"] >>, FALSE)>>,
      \* ALTER TABLE ONLY orders / ADD CONSTRAINT fk2 FOREIGN KEY (user_id, id)
      \*     REFERENCES accounts(owner_id, id) DEFERRABLE;   accounts is not in the file
      <<DAlterHead("orders"),
        DAddConstraint(ForeignKey(<<"user_id", "id">>, "accounts", <<"owner_id", "id">>, TRUE))>>,
      <<DAlterConstraint("orders", PrimaryKey(<<"id", "user_id">>))>>,
      <<DAlterOwner("users", "admin")>>,
      \* ALTER TABLE orders ADD CONSTRAINT fk_parent FOREIGN KEY (id) REFERENCES orders(id);
      <<DAlterConstraint("orders", ForeignKey(<<"id">>, "orders", <<"id">>, FALSE))>>,
      \* CREATE SEQUENCE orders_code_seq; / ALTER SEQUENCE orders_code_seq OWNED BY
      \* orders.unique_code; / ALTER TABLE orders ADD CONSTRAINT pk PRIMARY KEY (unique_code);
      <<DCreateSequence("orders_code_seq"),
        DOwnedBy("orders_code_seq", "orders", "unique_code"),
        DAlterConstraint("orders", PrimaryKey(<<"unique_code">>))>>,
      \* ALTER TABLE orders ADD CONSTRAINT fk_pair FOREIGN KEY (id, user_id)
      \*     REFERENCES orders(id);
      <<DAlterConstraint("orders",
                         ForeignKey(<<"id", "user_id">>, "orders", <<"id">>, FALSE))>>,
      \* "CREATE TABLE broken (" and nothing more: the statement is cut off
      <<DCreateTable("broken", <<>>)>>,
      \* CREATE UNIQUE INDEX users_email_key ON users USING btree (email);
      <<DCreateIndex("users_email_key", "users", << [name |-> "email", ops |-> ""] >>, TRUE)>> }

Dumps == { Flatten(ss) : ss \in SeqsUpTo(Statements, MaxStatements) }

Init ==
    /\ XIdle
    /\ \E f \in Dumps : DStart(f)
    /\ phase = "parse"
    /\ CIdle
    /\ KIdle

Next ==
    \/ ParseCreateTable
    \/ ParseCreateSequence
    \/ ParseSequenceOwnedBy
    \/ ParseAlterConstraint
    \/ ParseAlterJoin
    \/ ParseAlterOther
    \/ ParseCreateIndex
    \/ ParseSkip
    \/ IdentifyAutoPk
    \/ GenerateCompressed
    \/ ParseCompressed
    \/ GenerateStatistics

Spec == Init /\ [][Next]_vars

(***************************************************************************)
(* parse_compressed_schema and generate_statistics on their own, over       *)
(* compact files, hand-edited ones among them, and over the configured     *)
(* max_displayed_items.                                                    *)
(***************************************************************************)
\* Most lines under the first table header of a compact file.
MaxCompactLines == 2

\* Largest max_displayed_items configured.
MaxDisplayed == 2

CompactLines ==
    { CPkCol("id"),
      CCol("id", "integer", TRUE, None),
      CCol("id", "integer", FALSE, None),
      CCol("email", "text", FALSE, None),
      CCol("email", "text", FALSE, "'x'"),
      CCol("email", "text", TRUE, None),
      CFk("user_id", "users", "id", FALSE),
      CUnique(<<"email">>),
      CPk(<<"id">>),
      CIdx(<<"email">>, "", FALSE),
      CTable("users"),
      CTable("orders"),
      CTable("user_log"),
      CBareCol("note"),
      CCol("FK_owner", "integer", FALSE, None),
      CFkArrow,
      CUniqueColon,
      CJunk }

\* "users:" and the lines under it
CompactTexts == { <<CTable("users")>> \o ls : ls \in SeqsUpTo(CompactLines, MaxCompactLines) }

InitCompact ==
    /\ XIdle
    /\ dump = <<>> /\ pidx = 0 /\ tables = <<>> /\ sequences = <<>>
    /\ default_owner = None /\ pre_tables = <<>>
    /\ compact \in CompactTexts
    /\ phase = "cparse"
    /\ \E n \in 0..MaxDisplayed : CStart([DefaultSettings EXCEPT !.max_displayed_items = n])
    /\ KIdle

NextCompact == ParseCompressed \/ GenerateStatistics

SpecCompact == InitCompact /\ [][NextCompact]_vars

(***************************************************************************)
(* _fallback_categorize_tables on its own, one table per step, over table  *)
(* names and keyword configurations of the settings file.                  *)
(***************************************************************************)
\* Most tables of a categorized model.
MaxCatTables == 3

CatNames == {"users", "orders", "user_log", "AuditLog", "api_cache", "Settings"}

\* settings['context_generation']['fallback_categorization'] as load_settings
\* may return it: the default, and dicts read from a settings file
FallbackConfigs ==
    { DefaultFallback,
      << [name |-> "audit_logging", keywords |-> <<"log", "audit">>],
         [name |-> "auth_security", keywords |-> <<"auth", "user">>],
         [name |-> "configuration", keywords |-> <<"config", "setting">>] >>,
      << [name |-> "business_core", keywords |-> <<"order">>],
         [name |-> "auth_security", keywords |-> <<"user">>] >>,
      << [name |-> "temporary_cache", keywords |-> <<"cache">>],
         [name |-> "misc", keywords |-> <<"">>] >>,
      << >> }

DistinctNames(names) == \A i, j \in 1..Len(names) : i # j => names[i] # names[j]

InitCat ==
    /\ XIdle
    /\ DIdle
    /\ phase = "categorize"
    /\ \E cfg \in FallbackConfigs :
         settings = [DefaultSettings EXCEPT !.fallback_categorization = cfg]
    /\ \E names \in SeqsUpTo(CatNames, MaxCatTables) :
         /\ DistinctNames(names)
         /\ ctables = [k \in 1..Len(names) |-> NewCTable(names[k])]
    /\ relationships = <<>>
    /\ statistics = <<>>
    /\ stats_log = <<>>
    /\ KIdle

CatRunning == phase = "categorize" /\ cat_idx >= 0 /\ cat_idx < Len(ctables)

\* lines 416-420
CatBegin ==
    /\ phase = "categorize"
    /\ cat_idx = -1
    /\ categories' = InitialCategories(settings.fallback_categorization)
    /\ cat_idx' = 0
    /\ KFrame

\* lines 422-431: some category holds a keyword of the name; the first one takes it
CatMatch ==
    /\ CatRunning
    /\ FirstMatch(settings.fallback_categorization, ctables[cat_idx + 1].name, 1) > 0
    /\ categories' = CategorizeOne(categories, settings.fallback_categorization,
                                   ctables[cat_idx + 1].name)
    /\ cat_idx' = cat_idx + 1
    /\ KFrame

\* lines 422-435: no category matches
CatDefault ==
    /\ CatRunning
    /\ FirstMatch(settings.fallback_categorization, ctables[cat_idx + 1].name, 1) = 0
    /\ categories' = CategorizeOne(categories, settings.fallback_categorization,
                                   ctables[cat_idx + 1].name)
    /\ cat_idx' = cat_idx + 1
    /\ KFrame

\* line 437
CatReturn ==
    /\ phase = "categorize"
    /\ cat_idx = Len(ctables)
    /\ phase' = "categorized"
    /\ UNCHANGED <<xvars, dvars, cvars, kvars>>

NextCat == CatBegin \/ CatMatch \/ CatDefault \/ CatReturn

SpecCat == InitCat /\ [][NextCat]_vars

(***************************************************************************)
(* Round trip: the model M of parse_schema (tables) against the model      *)
(* parse_compressed_schema reads back (ctables, relationships).            *)
(***************************************************************************)
MColumnNames(tab) == [k \in 1..Len(tab.columns) |-> tab.columns[k].name]

\* the type a column of M stands for: an auto_pk column is an integer
MTypeOf(col) == IF col.auto_pk THEN "integer" ELSE col.type

MTypeCount(tab, ty) ==
    Cardinality({k \in 1..Len(tab.columns) : MTypeOf(tab.columns[k]) = ty})

MRequired(tab) ==
    Cardinality({k \in 1..Len(tab.columns) :
                    tab.columns[k].auto_pk \/ tab.columns[k].not_null})

MAutoPkNames(tab) ==
    LET hit == SelectSeq(tab.columns, LAMBDA c : c.auto_pk)
    IN  [k \in 1..Len(hit) |-> hit[k].name]

ColumnsReadBack(m, c) ==
    /\ c.columns = MColumnNames(m)
    /\ \A j \in 1..Len(m.columns) :
          CounterGet(c.column_types, MTypeOf(m.columns[j]))
              = MTypeCount(m, MTypeOf(m.columns[j]))
    /\ \A j \in 1..Len(c.column_types) :
          c.column_types[j].count = MTypeCount(m, c.column_types[j].name)
    /\ c.required_columns = MRequired(m)
    /\ c.nullable_columns = Len(m.columns) - MRequired(m)
    /\ \A j \in 1..Len(MAutoPkNames(m)) :
          \E i \in 1..Len(c.primary_keys) : c.primary_keys[i] = MAutoPkNames(m)[j]

\* C1: after parse_schema, generate_compressed_schema and
\* parse_compressed_schema, the model read back has the table names of M in
\* M's order and, per table, M's column names in declaration order, each type
\* counted as often as M holds it (an auto_pk column as integer) and as many
\* required and nullable columns as M (an auto_pk column required and a
\* primary key).
C1_RoundTripColumns ==
    phase = "stats" =>
        /\ Keys(ctables) = Keys(tables)
        /\ \A k \in 1..Len(tables) :
              k <= Len(ctables) => ColumnsReadBack(tables[k], ctables[k])

\* the relationships one FOREIGN KEY constraint of table t stands for: one per
\* local column, paired with the referenced column at its position
PairsOf(t, con) ==
    [i \in 1..Len(con.columns) |->
        [from_table |-> t, from_column |-> con.columns[i], to_table |-> con.ref_table,
         to_column |-> IF i <= Len(con.ref_columns) THEN con.ref_columns[i]
                       ELSE con.ref_columns[1],
         deferrable |-> con.deferrable]]

MRelationships(tab) ==
    LET fks == OfType(tab.constraints, "FOREIGN KEY")
    IN  Flatten([k \in 1..Len(fks) |-> PairsOf(tab.name, fks[k])])

MColumnLists(tab, type) ==
    LET cons == OfType(tab.constraints, type)
    IN  [k \in 1..Len(cons) |-> cons[k].columns]

MIndexes(tab) ==
    [k \in 1..Len(tab.indexes) |->
        [columns |-> tab.indexes[k].columns, unique |-> tab.indexes[k].unique,
         like_ops |-> tab.indexes[k].like_ops]]

ConstraintsReadBack(m, c) ==
    LET pk_cols == Flatten(MColumnLists(m, "PRIMARY KEY"))
        auto == Len(MAutoPkNames(m))
    IN  /\ c.foreign_keys = MRelationships(m)
        /\ c.unique_constraints = MColumnLists(m, "UNIQUE")
        /\ Len(c.primary_keys) = auto + Len(pk_cols)
        /\ \A j \in 1..Len(pk_cols) : c.primary_keys[auto + j] = pk_cols[j]
        /\ c.indexes = MIndexes(m)

\* C2: the model read back has, per table and in order, one relationship for
\* each local/referenced column pair of each FOREIGN KEY constraint of M, M's
\* UNIQUE column lists, M's PRIMARY KEY constraint columns after the auto_pk
\* columns, and M's indexes with equal columns, unique flag and like_ops flag;
\* the relationship list is the tables' lists in table order.
C2_RoundTripConstraints ==
    phase = "stats" =>
        /\ Len(ctables) = Len(tables)
        /\ \A k \in 1..Len(tables) : ConstraintsReadBack(tables[k], ctables[k])
        /\ relationships = Flatten([k \in 1..Len(tables) |-> MRelationships(tables[k])])

\* a table with a two-column deferrable foreign key and a LIKE index came back
C2_Witness ==
    /\ phase = "stats"
    /\ \E k \in 1..Len(tables) :
          /\ \E j \in 1..Len(tables[k].constraints) :
                /\ tables[k].constraints[j].type = "FOREIGN KEY"
                /\ Len(tables[k].constraints[j].columns) = 2
                /\ tables[k].constraints[j].deferrable
          /\ \E j \in 1..Len(tables[k].indexes) : tables[k].indexes[j].like_ops
          /\ Len(ctables[k].foreign_keys) = 2
          /\ Len(ctables[k].indexes) = 1

\* the three statements of the worked example, one per line
WorkedExample ==
    << DCreateTable("users", <<ColId, ColEmail>>),
       DCreateTable("orders", <<ColId, ColUserId>>),
       DAlterConstraint("orders", ForeignKey(<<"user_id">>, "users", <<"id">>, FALSE)) >>

\* C3: for the worked example the run ends with the tables users and orders,
\* the single relationship orders.user_id -> users.id, users referenced once
\* and without outgoing foreign key, orders with one outgoing foreign key.
C3_WorkedExample ==
    (dump = WorkedExample /\ Len(stats_log) >= 1) =>
        /\ Keys(ctables) = <<"users", "orders">>
        /\ relationships = << [from_table |-> "orders", from_column |-> "user_id",
                               to_table |-> "users", to_column |-> "id",
                               deferrable |-> FALSE] >>
        /\ statistics.table_count = 2
        /\ statistics.total_foreign_keys = 1
        /\ statistics.most_referenced_tables = << <<"users", 1>> >>
        /\ statistics.most_outgoing_fks = << <<"orders", 1>> >>
        /\ statistics.tables_without_outgoing_fks = <<"users">>
        /\ statistics.never_referenced_tables = <<"orders">>

RECURSIVE SectionFrom(_, _)
SectionFrom(text, i) ==
    IF i > Len(text) \/ text[i].k \in {"blank", "table"} THEN <<>>
    ELSE <<text[i]>> \o SectionFrom(text, i + 1)

\* the lines of the compact text under the header "t:"
TableSection(text, t) ==
    LET at == {i \in 1..Len(text) : text[i].k = "table" /\ text[i].name = t}
    IN  IF at = {} THEN <<>> ELSE SectionFrom(text, (CHOOSE i \in at : TRUE) + 1)

\* when the loop of parse_schema ended, table k held the column read from
\* "id integer NOT NULL", a sequence was owned by its id, and its PRIMARY KEY
\* constraints were PRIMARY KEY (id), at least one
AutoPkCase(k) ==
    LET t == pre_tables[k]
    IN  /\ \E j \in 1..Len(t.columns) : t.columns[j] = Column("id", "integer", TRUE, None)
        /\ OwnedBySomeSequence(t.name, "id")
        /\ \E j \in 1..Len(t.constraints) : t.constraints[j] = PrimaryKey(<<"id">>)
        /\ \A j \in 1..Len(t.constraints) :
              t.constraints[j].type = "PRIMARY KEY" => t.constraints[j].columns = <<"id">>

\* C4: a table whose CREATE TABLE block gave it the column id integer NOT
\* NULL, with a sequence owned by its id and PRIMARY KEY (id) added after the
\* block, leaves parse_schema with id marked auto_pk and no PRIMARY KEY
\* constraint, and its compact text holds "id: PK" and no PRIMARY KEY line.
C4_AutoPkNormalized ==
    \A k \in 1..Len(pre_tables) :
        (phase # "parse" /\ AutoPkCase(k)) =>
            /\ \E j \in 1..Len(tables[k].columns) :
                  tables[k].columns[j].name = "id" /\ tables[k].columns[j].auto_pk
            /\ OfType(tables[k].constraints, "PRIMARY KEY") = <<>>
            /\ phase \in {"cparse", "stats"} =>
                  LET sec == TableSection(compact, tables[k].name)
                  IN  /\ \E j \in 1..Len(sec) : sec[j] = CPkCol("id")
                      /\ \A j \in 1..Len(sec) : sec[j].k # "pk"

C4_Witness ==
    /\ phase = "stats"
    /\ \E k \in 1..Len(pre_tables) : AutoPkCase(k) /\ pre_tables[k].name = "users"

\* the degrees generate_statistics works with
OutDegree(name) == CounterGet(fk_counts(relationships), name)

InDegree(name) == CounterGet(incoming_fk_counts(relationships), name)

\* C8: each table's out-degree is the number of relationships leaving it, its
\* in-degree the number reaching it, and over the tables of the model the
\* out-degrees and the in-degrees each add up to total_foreign_keys.
C8_DegreeInvariants ==
    Len(stats_log) >= 1 =>
        /\ \A k \in 1..Len(ctables) :
              /\ OutDegree(ctables[k].name)
                   = Cardinality({j \in 1..Len(relationships) :
                                     relationships[j].from_table = ctables[k].name})
              /\ InDegree(ctables[k].name)
                   = Cardinality({j \in 1..Len(relationships) :
                                     relationships[j].to_table = ctables[k].name})
        /\ SumSeq([k \in 1..Len(ctables) |-> OutDegree(ctables[k].name)])
             = statistics.total_foreign_keys
        /\ SumSeq([k \in 1..Len(ctables) |-> InDegree(ctables[k].name)])
             = statistics.total_foreign_keys

\* the configured categories holding a keyword contained in the lowercased name
MatchingCategories(cfg, n) ==
    {k \in 1..Len(cfg) :
        \E j \in 1..Len(cfg[k].keywords) :
            Contains(NameChars(cfg[k].keywords[j]), LowerChars(NameChars(n)))}

\* the category the claim names for table n
ExpectedCategory(cfg, n) ==
    LET hits == MatchingCategories(cfg, n)
    IN  IF hits = {} THEN "business_core"
        ELSE cfg[CHOOSE k \in hits : \A h \in hits : k <= h].name

\* the places (bucket, position) where table n is listed
PlacesOf(n) ==
    {<<b, i>> \in (1..Len(categories)) \X (1..Len(ctables)) :
        i <= Len(categories[b].tables) /\ categories[b].tables[i] = n}

\* C9: every table handled so far is listed once, in one bucket: that of the
\* first configured category with a keyword contained in its lowercased name,
\* or business_core when there is none; tables not yet handled are listed
\* nowhere and the buckets list nothing but tables of the model.
C9_CategoryFirstMatch ==
    cat_idx >= 0 =>
        /\ \A k \in 1..Len(ctables) :
              IF k <= cat_idx
              THEN /\ Cardinality(PlacesOf(ctables[k].name)) = 1
                   /\ \A pl \in PlacesOf(ctables[k].name) :
                         categories[pl[1]].name
                            = ExpectedCategory(settings.fallback_categorization,
                                               ctables[k].name)
              ELSE PlacesOf(ctables[k].name) = {}
        /\ \A b \in 1..Len(categories) : \A i \in 1..Len(categories[b].tables) :
              \E k \in 1..Len(ctables) : ctables[k].name = categories[b].tables[i]

\* all tables handled: one matched two categories, one with an upper-case
\* letter matched, one matched none
C9_Witness ==
    /\ phase = "categorized"
    /\ \E k \in 1..Len(ctables) :
          Cardinality(MatchingCategories(settings.fallback_categorization,
                                         ctables[k].name)) >= 2
    /\ \E k \in 1..Len(ctables) :
          /\ ctables[k].name = "AuditLog"
          /\ MatchingCategories(settings.fallback_categorization, ctables[k].name) # {}
    /\ \E k \in 1..Len(ctables) :
          MatchingCategories(settings.fallback_categorization, ctables[k].name) = {}

\* C10: every later call of generate_statistics on the same parsed model leaves
\* the statistics of the first call, and the tables and relationships are
\* those the first call found.
C10_StatisticsIdempotent ==
    \A i \in 1..Len(stats_log) :
        /\ stats_log[i].statistics = stats_log[1].statistics
        /\ statistics = stats_log[1].statistics
        /\ ctables = stats_log[1].tables
        /\ relationships = stats_log[1].relationships

\* two calls made on a model with a self-referencing table
C10_Witness ==
    /\ Len(stats_log) >= 2
    /\ Len(ctables) >= 1
    /\ statistics.self_referencing_tables # <<>>

\* the type as the column line spells it
Spelling(tokens) ==
    CASE tokens = <<"character", "varying(50)">> -> "character varying(50)"
      [] tokens = <<"timestamp", "with", "time", "zone">> -> "timestamp with time zone"
      [] tokens = <<"timestamp", "without", "time", "zone">> -> "timestamp without time zone"
      [] OTHER -> tokens[1]

\* the short form of a verbose spelling
ShortForm(spelling) ==
    CASE spelling = "character varying(50)" -> "varchar"
      [] spelling = "character(10)" -> "char"
      [] spelling = "timestamp with time zone" -> "timestamptz"
      [] spelling = "timestamp without time zone" -> "timestamp"

Verbose ==
    {"character varying(50)", "character(10)", "timestamp with time zone",
     "timestamp without time zone"}

\* C14: after parse_schema, a column taken from a column line whose type is
\* spelled character varying(n), character(n), timestamp with time zone or
\* timestamp without time zone holds the short form varchar, char,
\* timestamptz or timestamp.  (Violated: only the first token of the type
\* reaches _simplify_type.)
C14_TypeNormalized ==
    phase # "parse" =>
        \A k \in 1..Len(tables) : \A j \in 1..Len(tables[k].columns) :
            \A p \in 1..Len(dump) :
                (/\ dump[p].k = "column"
                 /\ dump[p].name = tables[k].columns[j].name
                 /\ Spelling(dump[p].type) \in Verbose)
                    => tables[k].columns[j].type = ShortForm(Spelling(dump[p].type))

\* the place of a line of a table block in the order columns, foreign keys,
\* unique, primary key, indexes
BlockRank(l) ==
    CASE l.k \in {"col", "pkcol"} -> 1
      [] l.k = "fk" -> 2
      [] l.k = "unique" -> 3
      [] l.k = "pk" -> 4
      [] l.k = "idx" -> 5

\* C13: in the compact text every table block lists the table's columns in
\* declaration order, then its FK lines, then its UNIQUE lines, then its
\* PRIMARY KEY lines, then its IDX lines.  (Violated: the constraint lines
\* come in the order the constraints were added.)
C13_BlockOrder ==
    phase \in {"cparse", "stats"} =>
        \A k \in 1..Len(tables) :
            LET sec == TableSection(compact, tables[k].name)
                cols == SelectSeq(sec, LAMBDA l : BlockRank(l) = 1)
            IN  /\ [j \in 1..Len(cols) |-> cols[j].name] = MColumnNames(tables[k])
                /\ \A i, j \in 1..Len(sec) :
                      i < j => BlockRank(sec[i]) <= BlockRank(sec[j])

IsSinglePk(c) == c.type = "PRIMARY KEY" /\ Len(c.columns) = 1

Retains(tab, c) == \E j \in 1..Len(tab.constraints) : tab.constraints[j] = c

MarkedAutoPk(tab, col) ==
    \E j \in 1..Len(tab.columns) : tab.columns[j].name = col /\ tab.columns[j].auto_pk

\* C17: after the post-pass of parse_schema, in every table a single-column
\* PRIMARY KEY constraint the loop had recorded is gone exactly when its
\* column is marked auto_pk; no single-column PRIMARY KEY constraint is left
\* whose column a sequence is owned by; and a table that had a PRIMARY KEY
\* constraint has a PRIMARY KEY constraint or an auto_pk column.  (Violated:
\* the constraint is removed also when the table has no such column.)
C17_AutoPkAllOrNothing ==
    phase # "parse" =>
        \A k \in 1..Len(pre_tables) :
            LET before == pre_tables[k]
                after == tables[k]
                pks == OfType(before.constraints, "PRIMARY KEY")
            IN  /\ \A j \in 1..Len(pks) :
                      IsSinglePk(pks[j]) =>
                          (~Retains(after, pks[j]) <=> MarkedAutoPk(after, pks[j].columns[1]))
                /\ \A j \in 1..Len(after.constraints) :
                      IsSinglePk(after.constraints[j]) =>
                          ~OwnedBySomeSequence(after.name, after.constraints[j].columns[1])
                /\ pks # <<>> =>
                      \/ OfType(after.constraints, "PRIMARY KEY") # <<>>
                      \/ \E j \in 1..Len(after.columns) : after.columns[j].auto_pk

\* a constraint of table t is spelled by an ALTER TABLE statement of the file
\* that names t: on one line, or a head line naming t followed by its ADD
\* CONSTRAINT line
StatementNames(t, c) ==
    \E p \in 1..Len(dump) :
        \/ dump[p].k = "alter_constraint" /\ dump[p].table = t /\ dump[p].con = c
        \/ /\ dump[p].k = "alter_head" /\ dump[p].table = t
           /\ p < Len(dump) /\ dump[p + 1].k = "add_constraint" /\ dump[p + 1].con = c

\* C20: every constraint parse_schema records on a table comes from the ADD
\* CONSTRAINT clause of an ALTER TABLE statement naming that table.
\* (Violated: an ALTER TABLE line that is a statement of its own is joined
\* with a following ALTER TABLE ... ADD CONSTRAINT line and takes its
\* constraint.)
C20_ConstraintOnNamedTable ==
    \A k \in 1..Len(tables) : \A j \in 1..Len(tables[k].constraints) :
        StatementNames(tables[k].name, tables[k].constraints[j])

\* the steps of the parser leave what parse_schema computes in one go
ParseStepsAgree ==
    LET whole == parse_schema(dump)
    IN  IF phase = "parse"
        THEN LET st == ParseLoop(dump, [i |-> pidx, tables |-> tables,
                                        sequences |-> sequences,
                                        default_owner |-> default_owner])
             IN  /\ st.tables = whole.pre_tables
                 /\ st.sequences = whole.sequences
                 /\ st.default_owner = whole.default_owner
        ELSE phase \in {"generate", "cparse", "stats"} =>
                 /\ tables = whole.tables
                 /\ pre_tables = whole.pre_tables
                 /\ sequences = whole.sequences
                 /\ default_owner = whole.default_owner

\* the lines of ls without those at the positions in ps
WithoutLines(ls, ps) ==
    LET F[i \in 0..Len(ls)] ==
            IF i = 0 THEN <<>>
            ELSE IF i \in ps THEN F[i - 1] ELSE Append(F[i - 1], ls[i])
    IN  F[Len(ls)]

RECURSIVE ColumnRun(_, _)
\* the number of column lines of ls from position i on
ColumnRun(ls, i) ==
    IF i > Len(ls) \/ ls[i].k # "column" THEN 0 ELSE 1 + ColumnRun(ls, i + 1)

\* "CREATE TABLE t (" at position i with no ");" after its column lines
IsCutOff(ls, i) ==
    /\ ls[i].k = "create_table" /\ ls[i].body = <<>>
    /\ LET after == i + 1 + ColumnRun(ls, i + 1)
       IN  after > Len(ls) \/ ls[after].k # "end"

CutOffLines(ls) == { i \in 1..Len(ls) : IsCutOff(ls, i) }

CutOffNames(ls) == { ls[i].table : i \in CutOffLines(ls) }

OtherTables(tbls, names) == SelectSeq(tbls, LAMBDA tab : tab.name \notin names)

\* C12: when parse_schema returns, the tables of the well-formed statements
\* are those parse_schema gives for the same file with the cut-off CREATE
\* TABLE lines removed.  (Violated: the cut-off line makes
\* _parse_create_table take every line up to the next ");" as a column.)
C12_MalformedLineSkipped ==
    phase = "generate" =>
        OtherTables(tables, CutOffNames(dump)) =
            OtherTables(parse_schema(WithoutLines(dump, CutOffLines(dump))).tables,
                        CutOffNames(dump))

\* the number of lines of the statement of ls that begins at position i
StatementLen(ls, i) ==
    IF ls[i].k = "create_table" /\ ls[i].body = <<>>
    THEN LET after == i + 1 + ColumnRun(ls, i + 1)
         IN  IF after <= Len(ls) /\ ls[after].k = "end" THEN after - i + 1 ELSE after - i
    ELSE IF ls[i].k = "alter_head" /\ i < Len(ls) /\ ls[i + 1].k = "add_constraint"
    THEN 2
    ELSE 1

RECURSIVE StatementsFrom(_, _)
\* the statements of ls from position i on, each the sequence of its lines
StatementsFrom(ls, i) ==
    IF i > Len(ls) THEN <<>>
    ELSE LET n == StatementLen(ls, i)
         IN  <<SubSeq(ls, i, i + n - 1)>> \o StatementsFrom(ls, i + n)

StatementsOf(ls) == StatementsFrom(ls, 1)

\* the statements ss with those at j and j + 1 exchanged
SwapAt(ss, j) ==
    [k \in 1..Len(ss) |-> IF k = j THEN ss[j + 1] ELSE IF k = j + 1 THEN ss[j] ELSE ss[k]]

CountBefore(ls, p, Kind, s) ==
    Cardinality({ q \in 1..p : ls[q].k = Kind /\ ls[q].seq = s })

\* each CREATE SEQUENCE precedes its OWNED BY and is followed by no other
\* CREATE SEQUENCE of that name before it
SequenceBeforeOwnedBy(ls) ==
    \A p \in 1..Len(ls) :
        /\ ls[p].k = "owned_by" =>
               CountBefore(ls, p, "create_sequence", ls[p].seq)
                   = CountBefore(ls, p, "owned_by", ls[p].seq)
        /\ ls[p].k = "create_sequence" =>
               CountBefore(ls, p, "create_sequence", ls[p].seq)
                   = CountBefore(ls, p, "owned_by", ls[p].seq) + 1

CreatedBefore(ls, p, t) ==
    \E q \in 1..(p - 1) : ls[q].k = "create_table" /\ ls[q].table = t

\* each CREATE TABLE precedes the ADD CONSTRAINT statements of its table
TableBeforeConstraint(ls) ==
    \A p \in 1..Len(ls) :
        ls[p].k \in {"alter_constraint", "alter_head"} => CreatedBefore(ls, p, ls[p].table)

\* the columns marked auto_pk and the PRIMARY KEY constraints, each with
\* the name of its table
AutoPkView(tbls) ==
    [auto_pk |-> UNION { { <<tbls[k].name, tbls[k].columns[j].name>> :
                              j \in { i \in 1..Len(tbls[k].columns) :
                                          tbls[k].columns[i].auto_pk } } :
                         k \in 1..Len(tbls) },
     pks |-> UNION { { <<tbls[k].name, tbls[k].constraints[j]>> :
                          j \in { i \in 1..Len(tbls[k].constraints) :
                                      tbls[k].constraints[i].type = "PRIMARY KEY" } } :
                     k \in 1..Len(tbls) }]

IsSequenceStatement(stmt) == stmt[1].k \in {"create_sequence", "owned_by"}

IsTableOrConstraintStatement(stmt) ==
    stmt[1].k \in {"create_table", "alter_constraint", "alter_head"}

\* C18: when parse_schema returns on a file in which each CREATE SEQUENCE
\* precedes its OWNED BY and each CREATE TABLE its ADD CONSTRAINT, exchanging
\* a sequence statement with a neighbouring table or constraint statement so
\* that this still holds gives the same auto_pk flags and PRIMARY KEY
\* constraints.  (Violated: a CREATE SEQUENCE moved behind a one-line CREATE
\* TABLE is taken as a column of that table.)
C18_AutoPkOrderIndependent ==
    (phase = "generate" /\ SequenceBeforeOwnedBy(dump) /\ TableBeforeConstraint(dump)) =>
        LET ss == StatementsOf(dump)
        IN  \A j \in 1..(Len(ss) - 1) :
                LET other == Flatten(SwapAt(ss, j))
                IN  ( /\ \/ IsSequenceStatement(ss[j])
                            /\ IsTableOrConstraintStatement(ss[j + 1])
                         \/ IsSequenceStatement(ss[j + 1])
                            /\ IsTableOrConstraintStatement(ss[j])
                      /\ SequenceBeforeOwnedBy(other)
                      /\ TableBeforeConstraint(other) ) =>
                        AutoPkView(parse_schema(other).tables) = AutoPkView(tables)

\* the table an ADD CONSTRAINT or CREATE INDEX statement at position i names
IsTableStatement(ls, i) ==
    \/ ls[i].k \in {"alter_constraint", "create_index"}
    \/ ls[i].k = "alter_head" /\ i < Len(ls) /\ ls[i + 1].k = "add_constraint"

\* such a statement whose table no earlier CREATE TABLE has created
IsDangling(ls, i) == IsTableStatement(ls, i) /\ ~CreatedBefore(ls, i, ls[i].table)

\* C19: when parse_schema returns, for every ADD CONSTRAINT or CREATE INDEX
\* statement of the file that names a table no earlier CREATE TABLE created,
\* the tables are those parse_schema gives for the file without that
\* statement.  (Violated: after an ALTER TABLE ... OWNER TO line the
\* constraint of the dangling statement is put on the table of that line;
\* after a one-line CREATE TABLE the statement becomes a column.)
C19_DanglingDropped ==
    phase = "generate" =>
        \A i \in 1..Len(dump) :
            IsDangling(dump, i) =>
                tables = parse_schema(WithoutLines(dump,
                                          i..(i + StatementLen(dump, i) - 1))).tables

OfKind(text, kinds) == SelectSeq(text, LAMBDA l : l.k \in kinds)

\* what a compact text encodes: its table headers, its column lines in
\* order, and its constraint and index lines of each kind in order
EncodedConstructs(text) ==
    LET uniques == OfKind(text, {"unique"})
    IN  [tables |-> SelectSeq(text, LAMBDA l : l.k = "table" /\ l.indent = 0),
         columns |-> SelectSeq(text, LAMBDA l : l.k \in {"col", "pkcol"}
                                                \/ (l.k = "table" /\ l.indent = 2)),
         fks |-> SelectSeq(text, LAMBDA l : l.k = "fk" /\ FkMatches(l)),
         uniques |-> [j \in 1..Len(uniques) |-> uniques[j].cols],
         pks |-> OfKind(text, {"pk"}),
         idxs |-> OfKind(text, {"idx"})]

\* a text of the compact notation: each table header once, and under it
\* column, FK, UNIQUE, PRIMARY KEY and IDX lines of the notation's shapes
IsNotation(text) ==
    /\ \A i \in 1..Len(text) :
          \/ text[i].k = "table" /\ text[i].indent = 0
          \/ text[i].k \in {"col", "pkcol", "pk", "idx"}
          \/ text[i].k = "fk" /\ FkMatches(text[i])
          \/ text[i].k = "unique" /\ "colon" \notin DOMAIN text[i]
    /\ \A i, j \in 1..Len(text) :
          (i # j /\ text[i].k = "table" /\ text[j].k = "table") => text[i].name # text[j].name

\* C11: once parse_compressed_schema has read a compact text, every compact
\* text that differs from it in an encoded construct parses to a different
\* model.  (Violated: a column's DEFAULT value is not stored, and NOT NULL
\* markers are only counted per table.)
C11_CompactLossless ==
    (phase = "stats" /\ IsNotation(compact)) =>
        \A other \in CompactTexts :
            (IsNotation(other) /\ EncodedConstructs(other) # EncodedConstructs(compact)) =>
                LET m == parse_compressed_schema(<<>>, <<>>, other)
                IN  ~(m.tables = ctables /\ m.relationships = relationships)

\* the FK lines the compact notation has for a FOREIGN KEY constraint
ExpectedFkLines(con) ==
    [i \in 1..Len(con.columns) |->
        [k |-> "fk", indent |-> 2, local |-> con.columns[i], ref_table |-> con.ref_table,
         ref_col |-> IF Len(con.ref_columns) < i THEN con.ref_columns[1]
                     ELSE con.ref_columns[i],
         deferrable |-> con.deferrable]]

\* C21: in the compact text the FK lines of every table are, constraint by
\* constraint in the order of the table's FOREIGN KEY constraints, one line
\* per local column in local-column order: local column i with referenced
\* column i of the constraint's referenced table, or with the first
\* referenced column when there are fewer than i, each line DEFERRABLE
\* exactly when the constraint is.
C21_FkDecomposition ==
    phase \in {"cparse", "stats"} =>
        \A k \in 1..Len(tables) :
            LET fks == OfType(tables[k].constraints, "FOREIGN KEY")
            IN  OfKind(TableSection(compact, tables[k].name), {"fk"})
                    = Flatten([j \in 1..Len(fks) |-> ExpectedFkLines(fks[j])])

\* a table was serialized that has a foreign key of two local columns to one
\* referenced column and a deferrable one of two columns to two
C21_Witness ==
    /\ phase = "cparse"
    /\ \E k \in 1..Len(tables) :
          /\ \E j \in 1..Len(tables[k].constraints) :
                LET con == tables[k].constraints[j]
                IN  /\ con.type = "FOREIGN KEY"
                    /\ Len(con.columns) = 2 /\ Len(con.ref_columns) = 1
          /\ \E j \in 1..Len(tables[k].constraints) :
                LET con == tables[k].constraints[j]
                IN  /\ con.type = "FOREIGN KEY" /\ con.deferrable
                    /\ Len(con.columns) = 2 /\ Len(con.ref_columns) = 2
          /\ Len(OfKind(TableSection(compact, tables[k].name), {"fk"})) = 4

\* the model parse_compressed_schema holds after the first n lines of text
CompactModelAfter(text, n) ==
    ParseCompactLines(CompactStart(<<>>, <<>>), SubSeq(StripSplit(text), 1, n))

IsPrefixOf(a, b) == Len(a) <= Len(b) /\ SubSeq(b, 1, Len(a)) = a

\* every table of the model before is a table of the model after, with what
\* was recorded for it still in place
KeepsTables(before, after) ==
    \A k \in 1..Len(before) :
        /\ HasKey(after, before[k].name)
        /\ LET was == before[k]
               is == Get(after, before[k].name)
           IN  /\ IsPrefixOf(was.columns, is.columns)
               /\ IsPrefixOf(was.primary_keys, is.primary_keys)
               /\ IsPrefixOf(was.foreign_keys, is.foreign_keys)
               /\ IsPrefixOf(was.unique_constraints, is.unique_constraints)
               /\ IsPrefixOf(was.indexes, is.indexes)

\* C22: when parse_compressed_schema has read a compact text, every table
\* its model held after any number of lines is in the final model, with the
\* columns, primary keys, foreign keys, unique constraints and indexes
\* recorded by then still recorded.  (Violated: a repeated "name:" header
\* replaces the table's entry by an empty one.)
C22_TablesNeverReset ==
    phase = "stats" =>
        \A n \in 0..Len(StripSplit(compact)) :
            KeepsTables(CompactModelAfter(compact, n).tables, ctables)

\* the construct the notation's dispatch order gives a line indented by two
\* spaces: the four prefixes first, then the colon
SpecifiedBranch(l) ==
    IF l.k = "fk" THEN "fk"
    ELSE IF l.k = "unique" THEN "unique"
    ELSE IF l.k = "pk" THEN "pk"
    ELSE IF l.k = "idx" THEN "idx"
    ELSE IF CHasColon(l) THEN "column"
    ELSE "none"

\* C23: when a compact text has been parsed, each of its lines indented by
\* two spaces takes, in step_03_generate_context.py, the branch the
\* notation's order gives it, takes the same branch in 03_generate_context.py,
\* and the two copies read the same tables off the text.  (Violated: the
\* older copy keeps every line that begins with FK, UNIQUE, IDX or PRIMARY
\* out of the column branch, a column named FK_owner included.)
C23_DispatchOrder ==
    phase = "stats" =>
        /\ \A i \in 2..Len(StripSplit(compact)) :
              LET l == StripSplit(compact)[i]
              IN  l.indent = 2 =>
                      /\ LineBranch(l, IsColumnLine(l)) = SpecifiedBranch(l)
                      /\ LineBranch(l, IsColumnLine_03(l)) = LineBranch(l, IsColumnLine(l))
        /\ parse_compressed_schema_03(<<>>, <<>>, compact).tables = ctables

\* an indented line that has a construct's prefix and not its pattern, or
\* that is no construct of the notation at all
IsStructuralMiss(l) ==
    /\ l.indent >= 1
    /\ \/ l.k = "fk" /\ ~FkMatches(l)
       \/ l.k \in {"unique", "pk", "idx"} /\ ~ListMatches(l.cols)
       \/ l.k = "junk"

\* C24: when a compact text has been parsed, each of its lines that is a
\* structural miss inside a table context left the tables and relationships
\* as they were and added a diagnostic to what the parser printed.
\* (Violated: the handlers return without a word when their pattern fails,
\* and a line of no branch is passed over.)
C24_StructuralMissSurfaced ==
    phase = "stats" =>
        \A i \in 2..Len(StripSplit(compact)) :
            IsStructuralMiss(StripSplit(compact)[i]) =>
                LET before == CompactModelAfter(compact, i - 1)
                    after == CompactModelAfter(compact, i)
                IN  /\ after.tables = before.tables
                    /\ after.relationships = before.relationships
                    /\ Len(after.printed) = Len(before.printed) + 1

\* C25: after generate_statistics, with max_displayed_items N, each of
\* largest_tables, smallest_tables, most_outgoing_fks and
\* most_referenced_tables has at most N entries, and smallest_tables is
\* empty when there are at most N tables.  (Violated for N = 0: the slice
\* table_sizes[-0:] is the whole list.)
C25_RankingsTruncated ==
    Len(stats_log) >= 1 =>
        LET n == settings.max_displayed_items
        IN  /\ Len(statistics["largest_tables"]) <= n
            /\ Len(statistics["smallest_tables"]) <= n
            /\ Len(statistics["most_outgoing_fks"]) <= n
            /\ Len(statistics["most_referenced_tables"]) <= n
            /\ Len(ctables) <= n => statistics["smallest_tables"] = <<>>

\* the number of times x stands in the list s
Occurrences(s, x) == Cardinality({ i \in 1..Len(s) : s[i] = x })

\* C26: after generate_statistics a table is in self_referencing_tables
\* exactly when some relationship leads from it to itself, and it is there
\* once.  (Violated: the table is appended once per such relationship.)
C26_SelfReferencingOnce ==
    Len(stats_log) >= 1 =>
        \A k \in 1..Len(ctables) :
            LET t == ctables[k].name
                listed == Occurrences(statistics["self_referencing_tables"], t)
                loops == \E j \in 1..Len(relationships) :
                             relationships[j].from_table = t /\ relationships[j].to_table = t
            IN  /\ listed >= 1 <=> loops
                /\ listed <= 1

\* the table names of a ranking, a list of (name, count) pairs
RankedNames(ranking) == { ranking[i][1] : i \in 1..Len(ranking) }

\* C30: after generate_statistics with max_displayed_items N >= 1, when
\* smallest_tables is not empty no table is in both largest_tables and
\* smallest_tables.  (Violated: with more than N and fewer than 2N tables
\* the first N and the last N of the sorted list share tables.)
C30_SizeRankingsDisjoint ==
    (Len(stats_log) >= 1 /\ settings.max_displayed_items >= 1
        /\ statistics["smallest_tables"] # <<>>) =>
        RankedNames(statistics["largest_tables"])
            \cap RankedNames(statistics["smallest_tables"]) = {}

\* C27: when parse_compressed_schema has read a compact text, the
\* relationships list is the tables' foreign_keys lists one after the other
\* in table order, its length the sum of their lengths, and the from_table
\* of every relationship is a table that holds the relationship.  (Violated:
\* a repeated table header empties the table's list and leaves the
\* relationships.)
C27_RelationshipsConsistent ==
    phase = "stats" =>
        /\ relationships = Flatten([k \in 1..Len(ctables) |-> ctables[k].foreign_keys])
        /\ Len(relationships) = SumSeq([k \in 1..Len(ctables) |-> Len(ctables[k].foreign_keys)])
        /\ \A j \in 1..Len(relationships) :
              /\ HasKey(ctables, relationships[j].from_table)
              /\ Occurrences(Get(ctables, relationships[j].from_table).foreign_keys,
                             relationships[j]) >= 1

\* C28: when parse_compressed_schema has read a compact text, in every table
\* required_columns and nullable_columns add up to the number of columns,
\* and so do the counts of column_types.  (Violated: a column line with
\* nothing behind the colon is a column and is counted nowhere.)
C28_ColumnAccounting ==
    phase = "stats" =>
        \A k \in 1..Len(ctables) :
            LET tab == ctables[k]
            IN  /\ tab.required_columns + tab.nullable_columns = Len(tab.columns)
                /\ SumSeq([j \in 1..Len(tab.column_types) |-> tab.column_types[j].count])
                       = Len(tab.columns)

\* the names the column lines of the block that begins at position p
\* declare, in order; an inline table constraint declares none
DeclaredColumns(ls, p) ==
    LET block == SubSeq(ls, p + 1, p + ColumnRun(ls, p + 1))
        decl == SelectSeq(block, LAMBDA l : ~l.inline)
    IN  [j \in 1..Len(decl) |-> decl[j].name]

\* C29: when parse_schema takes a CREATE TABLE block, closed by ");", of a
\* table it does not hold yet, the table's columns after the block are the
\* columns the lines of the block declare, one each and in their order.
\* (Violated: a line that holds UNIQUE or CHECK, as the name unique_code
\* does, is skipped as an inline constraint.)
C29_NoColumnLost ==
    [][(/\ DParsing
        /\ DStartsCreateTable(DCur) /\ DCur.body = <<>>
        /\ ~IsCutOff(dump, pidx + 1)
        /\ ~HasKey(tables, DCur.table)) =>
            /\ HasKey(tables', DCur.table)
            /\ MColumnNames(Get(tables', DCur.table)) = DeclaredColumns(dump, pidx + 1)]_vars

====
